---- MODULE Spec2Model ----
(***************************************************************************)
(* A model of the ProxyPal core (src-tauri/src/lib.rs, config.rs):         *)
(*   - the sidecar supervisor: start_proxy, stop_proxy and the output      *)
(*     drain task sharing proxy_status and proxy_process;                  *)
(*   - the OAuth commands: open_oauth, poll_oauth_status, complete_oauth,  *)
(*     disconnect_provider, refresh_auth_status;                           *)
(*   - the atomic config save of config.rs.                                *)
(*                                                                         *)
(* Granularity.  Tauri runs async commands on a multi-threaded runtime, so *)
(* commands interleave.  A command is cut into one action per critical     *)
(* section or suspension point (a mutex guard's scope, an .await, a        *)
(* process spawn); code that runs under one guard is one action, unless    *)
(* another command reaches state the guard does not cover (auth.json,      *)
(* pending_oauth) in between.                                              *)
(***************************************************************************)
EXTENDS Integers, Sequences, FiniteSets, TLC

\* Commands (start_proxy, stop_proxy) that may be in progress at once.
MaxInFlight == 2

\* Sidecar processes spawned in one run.
MaxSpawns == 2

\* ProxyStatus::default / AppConfig::default port.
DefaultPort == 8317

\* The port the user has configured in config.json: not the default one, so
\* that a status built from the configuration differs from the default status.
ConfiguredPort == DefaultPort + 1

\* format!("http://localhost:{}/v1", port)
Endpoint(port) == <<"http://localhost:", port, "/v1">>

\* impl Default for ProxyStatus
ProxyStatus_default ==
    [running |-> FALSE, port |-> DefaultPort, endpoint |-> Endpoint(DefaultPort)]

VARIABLES
    proxy_status,       \* AppState.proxy_status : ProxyStatus
    config,             \* AppState.config : AppConfig (the fields the core reads)
    proxy_process,      \* AppState.proxy_process : 0 (None) or the pid of the stored child
    children,           \* every sidecar process spawned so far, by pid
    calls,              \* the start_proxy / stop_proxy commands in progress, by slot
    proxy_config_file,  \* proxy-config.yaml: 0 (absent) or the port written in it
    last_emit,          \* the payload of the last proxy-status-changed event
    returned,           \* what the step just taken returned to its caller, or the
                        \* drain task reported, if it did
    epoch               \* for the record: spawns and start results since the last
                        \* stop_proxy activity or sidecar exit

supVars == <<proxy_status, config, proxy_process, children, calls,
             proxy_config_file, last_emit, returned, epoch>>

VARIABLES
    config_json,        \* config.json: Absent or its content
    config_tmp,         \* config.tmp, the temporary sibling: Absent or its content
    saved,              \* the save_config_to_file call just made: its input and result
    loaded              \* the load_config call just made: what it returned and
                        \* whether it could read config.json; or Absent

fsVars == <<config_json, config_tmp, saved, loaded>>

VARIABLES
    pending_oauth,      \* AppState.pending_oauth : NoPending (None) or an OAuthState
    auth_status,        \* AppState.auth_status : AuthStatus
    auth_json,          \* auth.json: Absent or the AuthStatus written in it
    refreshing,         \* a refresh_auth_status between its lock and its save: its
                        \* new_auth and, for the record, whether auth_status
                        \* was written over since; or Absent
    opening,            \* an open_oauth that stored its flow and has not returned:
                        \* the flow and, for the record, the provider it
                        \* superseded and whether it was written over; or Absent
    completing,         \* a complete_oauth that saved and still holds the
                        \* auth_status lock: its provider and, for the record,
                        \* whether auth.json was written over since; or Absent
    answered            \* the OAuth or HTTP command that just returned: its input, its
                        \* result and the auth-status-changed event it emitted

oauthVars ==
    <<pending_oauth, auth_status, auth_json, refreshing, opening, completing, answered>>

VARIABLES
    history_json,       \* history.json: Absent or its content
    hist_ret,           \* the history command that just returned, and its result
    offered,            \* for the record: the add_request_to_history calls so far
    accepted,           \* for the record: the ids of the events whose add returned
                        \* Ok since the history was last cleared
    kept,               \* for the record: those of them added since history.json
                        \* was last left truncated by a failed write or could
                        \* not be read by an add
    upsets              \* for the record: the failed writes and clears so far

histVars == <<history_json, hist_ret, offered, accepted, kept, upsets>>

VARIABLES
    wire                \* the HTTP call a command has in flight: the command, what
                        \* it read before the call, and the request; or Absent

netVars == <<wire>>

VARIABLES
    request_counter,    \* request_counter of the drain task of each sidecar
    stdout,             \* the Stdout lines on each sidecar's event channel, oldest first
    taken,              \* for the record: the lines each drain task has taken so far
    request_log,        \* the request-log events emitted so far: the sidecar, the
                        \* place of the line in its output, the event's id
    scanned             \* the text function just applied: its input and result

logVars == <<request_counter, stdout, taken, request_log, scanned>>

VARIABLES
    threads,            \* the command or task each thread runs, and how far it is
    owner,              \* the thread that holds the lock of each cell, or 0
    during              \* for the record: what the holder of each lock has done
                        \* since it took it

lockVars == <<threads, owner, during>>

VARIABLES
    retired             \* for the record: the state token of the flow that was last
                        \* superseded by open_oauth or cleared by complete_oauth

linkVars == <<retired>>

vars == <<supVars, fsVars, oauthVars, histVars, netVars, logVars, lockVars, linkVars>>

----------------------------------------------------------------------------
(* Values *)

NoStatus == [running |-> FALSE, port |-> 0, endpoint |-> Endpoint(0)]

Ok(status) == [tag |-> "Ok", status |-> status]
Err(msg) == [tag |-> "Err", status |-> NoStatus]

\* A free command slot.
Idle ==
    [op |-> "", pc |-> "idle",
     port |-> 0,                  \* start_proxy: config.port, cloned at line 425
     new_status |-> NoStatus,     \* the status cloned under the lock
     \* stop_proxy, for the record: no start_proxy was in progress when it began
     \* and none was issued since; a drain task handled Terminated meanwhile
     undisturbed |-> FALSE,
     overlap |-> FALSE]

NoRet == [op |-> "", how |-> "", ret |-> Err("")]

\* What a returning command hands to its caller.
Returned(op, how, ret) == [op |-> op, how |-> how, ret |-> ret]

\* A spawned sidecar with the receiving end of its event channel.
NewChild ==
    [alive |-> TRUE,
     rx |-> "open",       \* open | terminated (Terminated queued) | closed (drain ended)
     \* for the record: it exited on its own while proxy_status.running; it was
     \* killed by stop_proxy and its Terminated is not handled yet
     crashed_running |-> FALSE,
     stopped |-> FALSE]

NewEpoch == [spawns |-> 0, ret |-> NoStatus, same |-> TRUE]

\* A start_proxy returned Ok(status): compare it with the epoch's earlier results.
EpochRet(e, status) ==
    IF e.ret = NoStatus THEN [e EXCEPT !.ret = status]
                        ELSE [e EXCEPT !.same = @ /\ (e.ret = status)]

SpawnOutcomes == {"write_failed", "spawn_failed", "spawned"}

Slots == 1..MaxInFlight
Pids == 1..Len(children)

FreeSlots == {c \in Slots : calls[c].pc = "idle"}

\* The slot a new command takes.
NextSlot == CHOOSE c \in FreeSlots : \A d \in FreeSlots : c <= d

\* No start_proxy is between its check and its return.
NoStartInProgress == \A c \in Slots : calls[c].op # "start"

\* No start_proxy and no stop_proxy is between its first step and its return.
NoCommandInProgress == \A c \in Slots : calls[c] = Idle

----------------------------------------------------------------------------
(* start_proxy *)

AlreadyRunning_never(status) == FALSE

\* line 430: if status.running { return Ok(status.clone()); }
AlreadyRunning(status) == status.running

\* A start_proxy is issued: every stop_proxy in progress is disturbed.
Disturbed(cs) ==
    [c \in Slots |-> IF cs[c].op = "stop" THEN [cs[c] EXCEPT !.undisturbed = FALSE]
                                         ELSE cs[c]]

\* lines 425-433: clone the config, check whether the proxy is running
StartCheck ==
    /\ FreeSlots # {}
    /\ IF AlreadyRunning(proxy_status)
         THEN /\ calls' = Disturbed(calls)
              /\ returned' = Returned("start", "already_running", Ok(proxy_status))
              /\ epoch' = EpochRet(epoch, proxy_status)
         ELSE /\ calls' = [Disturbed(calls) EXCEPT ![NextSlot] =
                              [Idle EXCEPT !.op = "start", !.pc = "spawn",
                                           !.port = config.port]]
              /\ returned' = NoRet
              /\ UNCHANGED epoch
    /\ UNCHANGED <<proxy_status, config, proxy_process, children,
                   proxy_config_file, last_emit>>
    /\ UNCHANGED <<fsVars, oauthVars, histVars, netVars, logVars, lockVars, linkVars>>

SlotAfterSpawn_clear(outcome, slot, pid) == IF outcome = "spawned" THEN pid ELSE 0

\* lines 470-476: the process slot after the spawn attempt: spawn()? returns
\* early on failure, before *process = Some(child)
SlotAfterSpawn(outcome, slot, pid) == IF outcome = "spawned" THEN pid ELSE slot

\* lines 435-513: write proxy-config.yaml and spawn the sidecar, either of which
\* may fail; on success store the child and launch the drain task on its channel
StartSpawn(c, outcome) ==
    /\ calls[c].op = "start" /\ calls[c].pc = "spawn"
    /\ outcome = "spawned" => Len(children) < MaxSpawns
    /\ proxy_config_file' = IF outcome = "write_failed" THEN proxy_config_file
                                                        ELSE calls[c].port
    /\ proxy_process' = SlotAfterSpawn(outcome, proxy_process, Len(children) + 1)
    /\ IF outcome = "spawned"
         THEN /\ children' = Append(children, NewChild)
              /\ calls' = [calls EXCEPT ![c].pc = "sleep"]
              /\ epoch' = [epoch EXCEPT !.spawns = @ + 1]
              /\ returned' = NoRet
         ELSE /\ calls' = [calls EXCEPT ![c] = Idle]
              /\ returned' = Returned("start", outcome, Err(outcome))
              /\ UNCHANGED <<children, epoch>>
    /\ UNCHANGED <<proxy_status, config, last_emit>>
    /\ UNCHANGED <<fsVars, oauthVars, histVars, netVars, logVars, lockVars, linkVars>>

StartedStatus_default(port) ==
    [running |-> TRUE, port |-> DefaultPort, endpoint |-> Endpoint(DefaultPort)]

\* lines 519-525: the status start_proxy writes
StartedStatus(port) == [running |-> TRUE, port |-> port, endpoint |-> Endpoint(port)]

\* lines 515-525: the settle delay (sleep 500 ms) is over; write the status
StartSetStatus(c) ==
    /\ calls[c].op = "start" /\ calls[c].pc = "sleep"
    /\ proxy_status' = StartedStatus(calls[c].port)
    /\ calls' = [calls EXCEPT ![c].pc = "emit", ![c].new_status = proxy_status']
    /\ returned' = NoRet
    /\ UNCHANGED <<config, proxy_process, children, proxy_config_file, last_emit, epoch>>
    /\ UNCHANGED <<fsVars, oauthVars, histVars, netVars, logVars, lockVars, linkVars>>

\* lines 527-530: emit proxy-status-changed, return Ok(new_status)
StartEmit(c) ==
    /\ calls[c].op = "start" /\ calls[c].pc = "emit"
    /\ last_emit' = calls[c].new_status
    /\ calls' = [calls EXCEPT ![c] = Idle]
    /\ returned' = Returned("start", "started", Ok(calls[c].new_status))
    /\ epoch' = EpochRet(epoch, calls[c].new_status)
    /\ UNCHANGED <<proxy_status, config, proxy_process, children, proxy_config_file>>
    /\ UNCHANGED <<fsVars, oauthVars, histVars, netVars, logVars, lockVars, linkVars>>

----------------------------------------------------------------------------
(* stop_proxy *)

NotRunning_never(status) == FALSE

\* line 541: if !status.running
NotRunning(status) == ~status.running

\* lines 538-544: if !status.running { return Ok(status.clone()); }
StopCheck ==
    /\ FreeSlots # {}
    /\ IF NotRunning(proxy_status)
         THEN /\ returned' = Returned("stop", "not_running", Ok(proxy_status))
              /\ UNCHANGED calls
         ELSE /\ calls' = [calls EXCEPT ![NextSlot] =
                              [Idle EXCEPT !.op = "stop", !.pc = "kill",
                                           !.undisturbed = NoStartInProgress]]
              /\ returned' = NoRet
    /\ epoch' = NewEpoch
    /\ UNCHANGED <<proxy_status, config, proxy_process, children,
                   proxy_config_file, last_emit>>
    /\ UNCHANGED <<fsVars, oauthVars, histVars, netVars, logVars, lockVars, linkVars>>

\* child.kill(): a successful kill ends the process, which queues Terminated on
\* its channel; a failed kill changes nothing.
Killed(ch, ok) ==
    IF ok /\ ch.alive
      THEN [ch EXCEPT !.alive = FALSE, !.rx = "terminated", !.stopped = TRUE]
      ELSE ch

SlotAfterKill_keep(slot, ok) == IF ok THEN 0 ELSE slot

\* line 549: process.take() empties the slot before child.kill() is tried
SlotAfterKill(slot, ok) == 0

\* lines 546-552: process.take(), child.kill()?
StopKill(c, ok) ==
    /\ calls[c].op = "stop" /\ calls[c].pc = "kill"
    /\ proxy_process' = SlotAfterKill(proxy_process, ok)
    /\ IF proxy_process = 0
         THEN /\ ok
              /\ children' = children
         ELSE children' = [children EXCEPT ![proxy_process] = Killed(@, ok)]
    /\ IF ok
         THEN /\ calls' = [calls EXCEPT ![c].pc = "set_status"]
              /\ returned' = NoRet
         ELSE /\ calls' = [calls EXCEPT ![c] = Idle]
              /\ returned' = Returned("stop", "kill_failed", Err("kill_failed"))
    /\ epoch' = NewEpoch
    /\ UNCHANGED <<proxy_status, config, proxy_config_file, last_emit>>
    /\ UNCHANGED <<fsVars, oauthVars, histVars, netVars, logVars, lockVars, linkVars>>

StoppedStatus_keep(status) == status

\* lines 554-559: the status stop_proxy writes
StoppedStatus(status) == [status EXCEPT !.running = FALSE]

StopSetStatus(c) ==
    /\ calls[c].op = "stop" /\ calls[c].pc = "set_status"
    /\ proxy_status' = StoppedStatus(proxy_status)
    /\ calls' = [calls EXCEPT ![c].pc = "emit", ![c].new_status = proxy_status']
    /\ epoch' = NewEpoch
    /\ returned' = NoRet
    /\ UNCHANGED <<config, proxy_process, children, proxy_config_file, last_emit>>
    /\ UNCHANGED <<fsVars, oauthVars, histVars, netVars, logVars, lockVars, linkVars>>

\* lines 561-564: emit proxy-status-changed, return Ok(new_status)
StopEmit(c) ==
    /\ calls[c].op = "stop" /\ calls[c].pc = "emit"
    /\ last_emit' = calls[c].new_status
    /\ calls' = [calls EXCEPT ![c] = Idle]
    /\ returned' = Returned("stop", "stopped", Ok(calls[c].new_status))
    /\ epoch' = NewEpoch
    /\ UNCHANGED <<proxy_status, config, proxy_process, children, proxy_config_file>>
    /\ UNCHANGED <<fsVars, oauthVars, histVars, netVars, logVars, lockVars, linkVars>>

----------------------------------------------------------------------------
(* The sidecar and its drain task *)

\* The sidecar exits on its own; the shell plugin queues CommandEvent::Terminated.
ChildExit(p) ==
    /\ children[p].alive
    /\ children' = [children EXCEPT ![p].alive = FALSE, ![p].rx = "terminated",
                                    ![p].crashed_running = proxy_status.running]
    /\ epoch' = NewEpoch
    /\ returned' = NoRet
    /\ UNCHANGED <<proxy_status, config, proxy_process, calls,
                   proxy_config_file, last_emit>>
    /\ UNCHANGED <<fsVars, oauthVars, histVars, netVars, logVars, lockVars, linkVars>>

TerminatedStatus_keep(status) == status

\* lines 504-505: what the drain task writes on CommandEvent::Terminated
TerminatedStatus(status) == [status EXCEPT !.running = FALSE]

\* lines 500-509: the drain task receives Terminated, which the channel hands
\* over after the Stdout lines queued before it: under the status lock it
\* clears running and emits proxy-status-changed, then ends
DrainTerminated(p) ==
    /\ children[p].rx = "terminated"
    /\ stdout[p] = <<>>
    /\ proxy_status' = TerminatedStatus(proxy_status)
    /\ last_emit' = proxy_status'
    /\ children' = [children EXCEPT ![p].rx = "closed",
                                    ![p].crashed_running = FALSE,
                                    ![p].stopped = FALSE]
    /\ calls' = [c \in Slots |->
                   IF calls[c].op = "stop" THEN [calls[c] EXCEPT !.overlap = TRUE]
                                           ELSE calls[c]]
    /\ returned' = Returned("drain",
                           IF children[p].crashed_running THEN "crashed_running"
                                                          ELSE "terminated",
                           Ok(proxy_status'))
    /\ UNCHANGED <<config, proxy_process, proxy_config_file, epoch>>
    /\ UNCHANGED <<fsVars, oauthVars, histVars, netVars, logVars, lockVars, linkVars>>

----------------------------------------------------------------------------
(* config.rs: the atomic save of config.json *)

\* A file is <<>> when absent, else <<c>> with c its content.  A content is
\* complete, or a truncated prefix of the text that was being written.
Absent == <<>>
File(complete, json) == <<[complete |-> complete, json |-> json]>>

\* The AppConfig values saved: a port, the deprecated amp_openai_provider
\* (Option, <<>> for None) and the amp_openai_providers list.
AmpProviders == {[id |-> i, name |-> "corp"] : i \in {"", "id1"}}

AppConfigs ==
    {[port |-> p, amp_openai_provider |-> o, amp_openai_providers |-> l] :
        p \in {ConfiguredPort},
        o \in {<<>>} \cup {<<a>> : a \in AmpProviders},
        l \in {<<>>, <<[id |-> "id1", name |-> "corp"]>>}}

\* serde_json::to_string_pretty under #[serde(rename_all = "camelCase")]
Serialize(c) ==
    [port |-> c.port,
     ampOpenaiProvider |-> c.amp_openai_provider,
     ampOpenaiProviders |-> c.amp_openai_providers]

\* for attempt in 0..3
MaxAttempts == 3

\* std::fs::write(&temp_path, &data) succeeds, fails after it created or
\* truncated the file (disk full, I/O error), or fails to open it (locked).
WriteOutcomes == {"ok", "partial", "denied"}

RECURSIVE WriteLoop(_, _, _, _)
\* lines 270-287: the retry loop over the temp file, from attempt a on
WriteLoop(temp, data, ws, a) ==
    IF a > MaxAttempts THEN temp
    ELSE CASE ws[a] = "ok" -> File(TRUE, data)
           [] ws[a] = "partial" -> WriteLoop(File(FALSE, data), data, ws, a + 1)
           [] ws[a] = "denied" -> WriteLoop(temp, data, ws, a + 1)

\* lines 289-295: if !temp_path.exists() { return Err(..) }
TempMissing(temp) == temp = Absent

NoSave == [all_failed |-> FALSE, ret |-> "", cfg |-> <<>>]

\* lines 250-304: save_config_to_file(cfg) over the files json and temp: what
\* it returns and what it leaves in the two files
SaveOutcome(cfg, json, temp, dir_ok, ws, rename_ok) ==
    LET written == WriteLoop(temp, Serialize(cfg), ws, 1)
        failed == \A a \in 1..MaxAttempts : ws[a] # "ok"
    IN  IF ~dir_ok
          THEN [saved |-> [all_failed |-> FALSE, ret |-> "Err_create_dir", cfg |-> <<cfg>>],
                json |-> json, temp |-> temp]
        ELSE IF TempMissing(written)
          THEN [saved |-> [all_failed |-> failed, ret |-> "Err_write", cfg |-> <<cfg>>],
                json |-> json, temp |-> written]
        ELSE IF rename_ok
          THEN [saved |-> [all_failed |-> failed, ret |-> "Ok", cfg |-> <<cfg>>],
                json |-> written, temp |-> Absent]
          ELSE [saved |-> [all_failed |-> failed, ret |-> "Err_rename", cfg |-> <<cfg>>],
                json |-> json, temp |-> written]

\* lines 250-304: save_config_to_file
SaveConfigToFile(cfg, dir_ok, ws, rename_ok) ==
    /\ LET out == SaveOutcome(cfg, config_json, config_tmp, dir_ok, ws, rename_ok)
       IN  /\ saved' = out.saved
           /\ config_json' = out.json
           /\ config_tmp' = out.temp
    /\ loaded' = Absent
    /\ UNCHANGED <<supVars, oauthVars, histVars, netVars, logVars, lockVars, linkVars>>

\* The configs the settings page may hand to save_config: either port.
EditedConfigs ==
    {[port |-> p, amp_openai_provider |-> <<>>, amp_openai_providers |-> <<>>] :
        p \in {DefaultPort, ConfiguredPort}}

\* lib.rs lines 1004-1005: *current_config = config.clone(), before the file
\* is written and whatever the write returns
ConfigAfterSave(current, cfg, ret) == [port |-> cfg.port]

\* lib.rs lines 1003-1007: save_config replaces the config in memory and
\* writes config.json
SaveConfig(cfg, dir_ok, ws, rename_ok) ==
    /\ LET out == SaveOutcome(cfg, config_json, config_tmp, dir_ok, ws, rename_ok)
       IN  /\ saved' = out.saved
           /\ config_json' = out.json
           /\ config_tmp' = out.temp
           /\ config' = ConfigAfterSave(config, cfg, out.saved.ret)
    /\ loaded' = Absent
    /\ UNCHANGED <<proxy_status, proxy_process, children, calls, proxy_config_file,
                   last_emit, returned, epoch>>
    /\ UNCHANGED <<oauthVars, histVars, netVars, logVars, lockVars, linkVars>>

\* serde_json::from_str::<AppConfig> under #[serde(rename_all = "camelCase")]
Deserialize(j) ==
    [port |-> j.port,
     amp_openai_provider |-> j.ampOpenaiProvider,
     amp_openai_providers |-> j.ampOpenaiProviders]

\* lines 125-166: AppConfig::default()
AppConfig_default ==
    [port |-> DefaultPort, amp_openai_provider |-> <<>>, amp_openai_providers |-> <<>>]

\* types/amp.rs, generate_uuid(): some identifier, not empty
Uuids == {"uuid1"}

ProviderWithId_same(old_provider, uuid) == old_provider

\* lines 228-235: provider_with_id
ProviderWithId(old_provider, uuid) ==
    IF old_provider.id = "" THEN [old_provider EXCEPT !.id = uuid] ELSE old_provider

\* lines 218-219: the deprecated field is set and the list is empty
NeedsMigration(c) == c.amp_openai_provider # <<>> /\ c.amp_openai_providers = <<>>

\* lines 218-236: amp_openai_provider.take() and, for an empty list, the push
Migrated(c, uuid) ==
    IF c.amp_openai_provider = <<>> THEN c
    ELSE IF c.amp_openai_providers = <<>>
      THEN [c EXCEPT !.amp_openai_provider = <<>>,
                     !.amp_openai_providers =
                        <<ProviderWithId(c.amp_openai_provider[1], uuid)>>]
      ELSE [c EXCEPT !.amp_openai_provider = <<>>]

ReadToString_blind(file, read_ok) == file

\* std::fs::read_to_string(&path) behind path.exists(): the file, or Absent
\* when there is none or the read fails
ReadToString(file, read_ok) == IF read_ok THEN file ELSE Absent

\* lines 211-246: load_config; a migration saves the config and drops the
\* result of the save
LoadConfig(read_ok, uuid, dir_ok, ws, rename_ok) ==
    /\ ~read_ok => config_json # Absent
    /\ IF /\ ReadToString(config_json, read_ok) # Absent
          /\ ReadToString(config_json, read_ok)[1].complete
         THEN LET c == Deserialize(ReadToString(config_json, read_ok)[1].json)
                  out == SaveOutcome(Migrated(c, uuid), config_json, config_tmp,
                                     dir_ok, ws, rename_ok)
              IN  /\ loaded' = <<[config |-> Migrated(c, uuid), read_ok |-> read_ok]>>
                  /\ IF NeedsMigration(c)
                       THEN /\ saved' = out.saved
                            /\ config_json' = out.json
                            /\ config_tmp' = out.temp
                       ELSE /\ saved' = NoSave
                            /\ UNCHANGED <<config_json, config_tmp>>
         ELSE /\ loaded' = <<[config |-> AppConfig_default, read_ok |-> read_ok]>>
              /\ saved' = NoSave
              /\ UNCHANGED <<config_json, config_tmp>>
    /\ UNCHANGED <<supVars, oauthVars, histVars, netVars, logVars, lockVars, linkVars>>

\* Any config.json of an earlier run, no temp file
FsInit ==
    /\ config_json \in {Absent} \cup {File(TRUE, Serialize(c)) : c \in AppConfigs}
    /\ config_tmp = Absent
    /\ saved = NoSave
    /\ loaded = Absent

\* A first run: no config.json yet
FsFresh ==
    /\ config_json = Absent
    /\ config_tmp = Absent
    /\ saved = NoSave
    /\ loaded = Absent

----------------------------------------------------------------------------
(* lib.rs: the OAuth commands *)

\* The providers open_oauth has an auth-url endpoint for, and those AuthStatus
\* has a flag for.
OAuthProviders == {"claude", "openai", "gemini", "qwen", "iflow", "antigravity"}
AuthProviders == OAuthProviders \cup {"vertex"}

\* The provider arguments tried: two OAuth providers, vertex (which open_oauth
\* refuses), an unknown one.
ProviderArgs == {"claude", "gemini", "vertex", "bogus"}
FlagArgs == {"claude", "gemini", "bogus"}

\* The state tokens tried; "" is also what open_oauth takes for a missing one.
StateTokens == {"", "st1"}

\* impl Default for AuthStatus
AuthStatus_default == [p \in AuthProviders |-> FALSE]

NoPending == <<>>

\* What the management API may answer: no answer at all (transport error), a
\* non-success status, a body that is not JSON, or a JSON body; "" stands for a
\* field that is missing or not a string.
Response(kind, success, json, url, state, status) ==
    [kind |-> kind, success |-> success, json |-> json,
     url |-> url, state |-> state, status |-> status]

NoResponse == Response("none", FALSE, FALSE, "", "", "")

FailedResponses ==
    {Response("transport_error", FALSE, FALSE, "", "", ""),
     Response("http", FALSE, TRUE, "", "", ""),
     Response("http", TRUE, FALSE, "", "", "")}

AuthUrlResponses ==
    FailedResponses \cup
    {Response("http", TRUE, TRUE, u, st, "ok") :
        u \in {"", "https://auth"}, st \in StateTokens}

StatusResponses ==
    FailedResponses \cup
    {Response("http", TRUE, TRUE, "", "", st) : st \in {"", "ok", "wait", "error"}}

\* The provider of the pending flow, "" for none.
PendingProvider(pending) == IF pending = NoPending THEN "" ELSE pending[1].provider

Res(tag, val) == [tag |-> tag, val |-> val]

NoEvent == <<>>

NoAnswer ==
    [op |-> "", arg |-> "", resp |-> NoResponse, ret |-> Res("none", ""),
     prior |-> "", emitted |-> NoEvent]

\* A command returns ret for the argument arg and the API answer resp; prior is
\* the provider of the pending flow it found ("" for none), emitted the
\* auth-status-changed event it emitted.
Answer(op, arg, resp, ret, prior, emitted) ==
    [op |-> op, arg |-> arg, resp |-> resp, ret |-> ret,
     prior |-> prior, emitted |-> emitted]

\* lines 730-768: the checks of open_oauth, in order; "" when all pass
OpenOAuthError(provider, resp) ==
    IF provider = "vertex" THEN "vertex"
    ELSE IF provider \notin OAuthProviders THEN "unknown_provider"
    ELSE IF resp.kind = "transport_error" THEN "transport"
    ELSE IF ~resp.success THEN "http_status"
    ELSE IF ~resp.json THEN "parse"
    ELSE IF resp.url = "" THEN "no_url"
    ELSE ""

PendingAfterOpen_keep(pending, provider, state) ==
    IF pending = NoPending THEN <<[provider |-> provider, state |-> state]>>
                           ELSE pending

\* lines 770-777: *pending = Some(OAuthState { provider, state })
PendingAfterOpen(pending, provider, state) ==
    <<[provider |-> provider, state |-> state]>>

\* The record of retired flows after the flow in the slot, if any, lost it.
Retired(old, pending) == IF pending = NoPending THEN old ELSE <<pending[1].state>>

\* lines 721-777: open_oauth asks the auth-url endpoint, whose answer is resp,
\* and under the pending_oauth lock stores the flow; each failed check returns
\* its error
OpenStored(provider, resp) ==
    /\ opening = Absent
    /\ IF OpenOAuthError(provider, resp) # ""
         THEN /\ answered' = Answer("open_oauth", provider, NoResponse,
                                    Res("Err", OpenOAuthError(provider, resp)),
                                    PendingProvider(pending_oauth), NoEvent)
              /\ UNCHANGED <<pending_oauth, opening, retired>>
         ELSE /\ pending_oauth' = PendingAfterOpen(pending_oauth, provider, resp.state)
              /\ retired' = Retired(retired, pending_oauth)
              /\ opening' = <<[provider |-> provider, state |-> resp.state,
                               prior |-> PendingProvider(pending_oauth),
                               overwritten |-> FALSE]>>
              /\ answered' = NoAnswer
    /\ UNCHANGED <<auth_status, auth_json, refreshing, completing>>

\* open_oauth up to its store, the call and its answer in one step
OpenStore(provider, resp) ==
    /\ OpenStored(provider, resp)
    /\ UNCHANGED <<supVars, fsVars, histVars, netVars, logVars, lockVars>>

\* lines 779-785: open_oauth opens the URL in the browser, which may fail, and
\* returns the state token
OpenReturn(open_ok) ==
    /\ opening # Absent
    /\ opening' = Absent
    /\ answered' = Answer("open_oauth", opening[1].provider, NoResponse,
                          IF open_ok THEN Res("Ok", opening[1].state)
                                     ELSE Res("Err", "open_url"),
                          opening[1].prior, NoEvent)
    /\ UNCHANGED <<pending_oauth, auth_status, auth_json, refreshing, completing>>
    /\ UNCHANGED <<supVars, fsVars, histVars, netVars, logVars, lockVars, linkVars>>

PollResult_soft(resp) ==
    IF resp.kind = "transport_error" \/ ~resp.success \/ ~resp.json
      THEN Res("Ok", FALSE)
      ELSE Res("Ok", (IF resp.status = "" THEN "wait" ELSE resp.status) = "ok")

\* lines 801-819: the result of poll_oauth_status for an answer of the
\* get-auth-status endpoint; a missing status counts as "wait"
PollResult(resp) ==
    IF resp.kind = "transport_error" THEN Res("Err", "transport")
    ELSE IF ~resp.success THEN Res("Ok", FALSE)
    ELSE IF ~resp.json THEN Res("Err", "parse")
    ELSE Res("Ok", (IF resp.status = "" THEN "wait" ELSE resp.status) = "ok")

\* lines 789-820: poll_oauth_status returns
PollFinished(oauth_state, resp) ==
    /\ answered' = Answer("poll_oauth_status", oauth_state, resp, PollResult(resp),
                          "", NoEvent)
    /\ UNCHANGED <<pending_oauth, auth_status, auth_json, refreshing, opening,
                   completing>>

\* poll_oauth_status, the call and its answer in one step
PollOAuthStatus(oauth_state, resp) ==
    /\ PollFinished(oauth_state, resp)
    /\ UNCHANGED <<supVars, fsVars, histVars, netVars, logVars, lockVars, linkVars>>

\* std::fs::write(path, data) of save_auth_to_file: done, or failed after it
\* truncated the file, or failed to open it
AuthFileAfter(file, auth, outcome) ==
    CASE outcome = "ok" -> File(TRUE, auth)
      [] outcome = "partial" -> File(FALSE, auth)
      [] outcome = "denied" -> file

PendingAfterComplete_same(pending, provider) ==
    IF pending # NoPending /\ pending[1].provider = provider THEN NoPending
                                                             ELSE pending

\* lines 910-912: *pending = None
PendingAfterComplete(pending, provider) == NoPending

\* auth_status is written while a refresh_auth_status is between its lock and
\* its save.
WrittenOver(r) == IF r = Absent THEN r ELSE <<[r[1] EXCEPT !.overwritten = TRUE]>>

\* The auth_status mutex is free: no complete_oauth holds it.
AuthUnlocked == completing = Absent

\* lines 890-905: complete_oauth takes the auth_status lock, sets the flag of
\* the provider and saves auth.json; an unknown provider or a failed save
\* returns the error (the flag stays set) and releases the lock
CompleteSave(provider, outcome) ==
    /\ AuthUnlocked
    /\ IF provider \notin AuthProviders
         THEN /\ answered' = Answer("complete_oauth", provider, NoResponse,
                                    Res("Err", "unknown_provider"),
                                    PendingProvider(pending_oauth), NoEvent)
              /\ UNCHANGED <<auth_status, auth_json, completing>>
         ELSE /\ auth_status' = [auth_status EXCEPT ![provider] = TRUE]
              /\ auth_json' = AuthFileAfter(auth_json, auth_status', outcome)
              /\ IF outcome = "ok"
                   THEN /\ completing' = <<[provider |-> provider,
                                             overwritten |-> FALSE]>>
                        /\ answered' = NoAnswer
                   ELSE /\ answered' = Answer("complete_oauth", provider, NoResponse,
                                              Res("Err", "save"),
                                              PendingProvider(pending_oauth), NoEvent)
                        /\ UNCHANGED completing
    /\ refreshing' = IF provider \in AuthProviders THEN WrittenOver(refreshing)
                                                    ELSE refreshing
    /\ UNCHANGED <<pending_oauth, opening>>
    /\ UNCHANGED <<supVars, fsVars, histVars, netVars, logVars, lockVars, linkVars>>

\* lines 907-917: still under the auth_status lock, complete_oauth clears
\* pending_oauth, emits auth-status-changed and returns the status
CompleteFinish ==
    /\ completing # Absent
    /\ pending_oauth' = PendingAfterComplete(pending_oauth, completing[1].provider)
    /\ answered' = Answer("complete_oauth", completing[1].provider, NoResponse,
                          Res("Ok", auth_status), PendingProvider(pending_oauth),
                          <<auth_status>>)
    /\ completing' = Absent
    /\ opening' = IF opening # Absent
                    THEN <<[opening[1] EXCEPT !.overwritten = TRUE]>>
                    ELSE opening
    /\ retired' = Retired(retired, pending_oauth)
    /\ UNCHANGED <<auth_status, auth_json, refreshing>>
    /\ UNCHANGED <<supVars, fsVars, histVars, netVars, logVars, lockVars>>

\* lines 922-947: disconnect_provider, all of it under the auth_status lock
DisconnectProvider(provider, outcome) ==
    /\ AuthUnlocked
    /\ IF provider \notin AuthProviders
         THEN /\ answered' = Answer("disconnect_provider", provider, NoResponse,
                                    Res("Err", "unknown_provider"), "", NoEvent)
              /\ UNCHANGED <<auth_status, auth_json>>
         ELSE /\ auth_status' = [auth_status EXCEPT ![provider] = FALSE]
              /\ auth_json' = AuthFileAfter(auth_json, auth_status', outcome)
              /\ answered' =
                    IF outcome = "ok"
                      THEN Answer("disconnect_provider", provider, NoResponse,
                                  Res("Ok", auth_status'), "", <<auth_status'>>)
                      ELSE Answer("disconnect_provider", provider, NoResponse,
                                  Res("Err", "save"), "", NoEvent)
    /\ refreshing' = IF provider \in AuthProviders THEN WrittenOver(refreshing)
                                                    ELSE refreshing
    /\ UNCHANGED <<pending_oauth, opening, completing>>
    /\ UNCHANGED <<supVars, fsVars, histVars, netVars, logVars, lockVars, linkVars>>

\* File names are sequences of characters.  The credential directory holds
\* any of: claude-a.json, ANTHROPIC-B.JSON, gemini-c.txt, codex-d.json.
ClaudeFile == <<"c","l","a","u","d","e","-","a",".","j","s","o","n">>
AnthropicUpperFile == <<"A","N","T","H","R","O","P","I","C","-","B",".","J","S","O","N">>
GeminiTxtFile == <<"g","e","m","i","n","i","-","c",".","t","x","t">>
CodexFile == <<"c","o","d","e","x","-","d",".","j","s","o","n">>

DirFiles == {ClaudeFile, AnthropicUpperFile, GeminiTxtFile, CodexFile}

\* char::to_lowercase, for the letters that occur
ToLowerChar(ch) ==
    CASE ch = "A" -> "a" [] ch = "B" -> "b" [] ch = "C" -> "c" [] ch = "H" -> "h"
      [] ch = "I" -> "i" [] ch = "J" -> "j" [] ch = "N" -> "n" [] ch = "O" -> "o"
      [] ch = "P" -> "p" [] ch = "R" -> "r" [] ch = "S" -> "s" [] ch = "T" -> "t"
      [] OTHER -> ch

\* str::to_lowercase
ToLower(name) == [i \in 1..Len(name) |-> ToLowerChar(name[i])]

\* str::starts_with, str::ends_with
StartsWith(name, pre) == Len(name) >= Len(pre) /\ SubSeq(name, 1, Len(pre)) = pre
EndsWith(name, suf) ==
    Len(name) >= Len(suf) /\ SubSeq(name, Len(name) - Len(suf) + 1, Len(name)) = suf

\* lines 833-861: the flag one directory entry sets, "" for none
ProviderOfFile(name) ==
    LET filename == ToLower(name)
    IN  IF ~EndsWith(filename, <<".","j","s","o","n">>) THEN ""
        ELSE IF \/ StartsWith(filename, <<"c","l","a","u","d","e","-">>)
                \/ StartsWith(filename, <<"a","n","t","h","r","o","p","i","c","-">>)
               THEN "claude"
        ELSE IF StartsWith(filename, <<"c","o","d","e","x","-">>) THEN "openai"
        ELSE IF StartsWith(filename, <<"g","e","m","i","n","i","-">>) THEN "gemini"
        ELSE IF StartsWith(filename, <<"q","w","e","n","-">>) THEN "qwen"
        ELSE IF StartsWith(filename, <<"i","f","l","o","w","-">>) THEN "iflow"
        ELSE IF StartsWith(filename, <<"v","e","r","t","e","x","-">>) THEN "vertex"
        ELSE IF StartsWith(filename, <<"a","n","t","i","g","r","a","v","i","t","y","-">>)
               THEN "antigravity"
        ELSE ""

AuthFromDir_keep(dir) ==
    [p \in AuthProviders |-> auth_status[p] \/ \E f \in dir : ProviderOfFile(f) = p]

\* lines 830-863: new_auth, the default AuthStatus with the flag of every
\* directory entry set
AuthFromDir(dir) == [p \in AuthProviders |-> \E f \in dir : ProviderOfFile(f) = p]

\* lines 823-869: refresh_auth_status scans the credential directory, which
\* holds the files dir, and replaces auth_status under the lock
RefreshScan(dir) ==
    /\ refreshing = Absent
    /\ AuthUnlocked
    /\ auth_status' = AuthFromDir(dir)
    /\ refreshing' = <<[new_auth |-> auth_status', overwritten |-> FALSE]>>
    /\ answered' = NoAnswer
    /\ UNCHANGED <<pending_oauth, auth_json, opening, completing>>
    /\ UNCHANGED <<supVars, fsVars, histVars, netVars, logVars, lockVars, linkVars>>

\* lines 871-877: refresh_auth_status, outside the lock, saves new_auth, emits
\* it and returns it
RefreshSave(outcome) ==
    /\ refreshing # Absent
    /\ refreshing' = Absent
    /\ auth_json' = AuthFileAfter(auth_json, refreshing[1].new_auth, outcome)
    /\ answered' =
          IF outcome = "ok"
            THEN Answer("refresh_auth_status", "", NoResponse,
                        Res("Ok", refreshing[1].new_auth), "",
                        <<refreshing[1].new_auth>>)
            ELSE Answer("refresh_auth_status", "", NoResponse,
                        Res("Err", "save"), "", NoEvent)
    /\ completing' = IF completing # Absent /\ outcome # "denied"
                       THEN <<[completing[1] EXCEPT !.overwritten = TRUE]>>
                       ELSE completing
    /\ UNCHANGED <<pending_oauth, auth_status, opening>>
    /\ UNCHANGED <<supVars, fsVars, histVars, netVars, logVars, lockVars, linkVars>>

\* lines 247-257: load_auth_status
LoadAuthStatus(file) ==
    IF file # Absent /\ file[1].complete THEN file[1].json ELSE AuthStatus_default

\* lines 1946-1956: run() builds the AppState with the auth status it loads
RunLoadAuth(read_ok) ==
    /\ ~read_ok => auth_json # Absent
    /\ auth_status' = LoadAuthStatus(ReadToString(auth_json, read_ok))
    /\ pending_oauth' = NoPending
    /\ refreshing' = Absent
    /\ opening' = Absent
    /\ completing' = Absent
    /\ answered' = Answer("load_auth_status", "", NoResponse,
                          Res("Ok", auth_status'), "", NoEvent)
    /\ UNCHANGED auth_json
    /\ UNCHANGED <<supVars, fsVars, histVars, netVars, logVars, lockVars, linkVars>>

\* AppState built in run(): no auth.json yet, so the default AuthStatus; no
\* pending flow
OAuthInit ==
    /\ pending_oauth = NoPending
    /\ auth_status = AuthStatus_default
    /\ auth_json = Absent
    /\ refreshing = Absent
    /\ opening = Absent
    /\ completing = Absent
    /\ answered = NoAnswer

----------------------------------------------------------------------------
(* lib.rs: the request history.  add_request_to_history, clear_request_history
   and get_request_history are synchronous commands: each runs to its return
   before the next one starts. *)

MaxEvents == 102
MaxUpsets == 1

\* line 197: if trimmed.requests.len() > 100
HistoryCap == 100

\* The model names of the events, one of them in upper case.
HistoryModels == <<"claude-3-opus-20240229", "GPT-4o-mini", "llama-3-70b">>

\* lines 23-34: RequestLog, the fields the history reads.  Option<u32> is
\* <<>> for None and <<n>> for Some(n).  The n-th event offered to the history:
EventAt(n) ==
    [id |-> n,
     model |-> HistoryModels[(n % 3) + 1],
     tokens_in |-> IF n % 4 = 0 THEN <<>> ELSE <<100 * (n % 4)>>,
     tokens_out |-> IF n % 5 = 0 THEN <<>> ELSE <<n % 5>>]

\* Option::unwrap_or
UnwrapOr(opt, d) == IF opt = <<>> THEN d ELSE opt[1]

\* str::to_lowercase, for the model names that occur
ToLowerModel(model) ==
    CASE model = "GPT-4o-mini" -> "gpt-4o-mini"
      [] OTHER -> model

\* str::contains
Contains(str, sub) ==
    \E i \in 1..(Len(str) - Len(sub) + 1) : SubSeq(str, i, i + Len(sub) - 1) = sub

\* lines 207-220: (input_rate, output_rate) per 1M tokens, in thousandths of a
\* dollar
Rates(model) ==
    LET m == ToLowerModel(model)
    IN  IF Contains(m, "claude-3-opus") THEN <<15000, 75000>>
        ELSE IF Contains(m, "claude-3-sonnet") \/ Contains(m, "claude-3.5-sonnet")
               THEN <<3000, 15000>>
        ELSE IF Contains(m, "claude-3-haiku") \/ Contains(m, "claude-3.5-haiku")
               THEN <<250, 1250>>
        ELSE IF Contains(m, "gpt-4o") THEN <<2500, 10000>>
        ELSE IF Contains(m, "gpt-4-turbo") \/ Contains(m, "gpt-4") THEN <<10000, 30000>>
        ELSE IF Contains(m, "gpt-3.5") THEN <<500, 1500>>
        ELSE IF Contains(m, "gemini-1.5-pro") THEN <<1250, 5000>>
        ELSE IF Contains(m, "gemini-1.5-flash") THEN <<75, 300>>
        ELSE IF Contains(m, "gemini-2") THEN <<100, 400>>
        ELSE IF Contains(m, "qwen") THEN <<500, 2000>>
        ELSE <<1000, 3000>>

\* lines 205-226: estimate_request_cost.  The f64 dollars are counted exactly,
\* in billionths of a dollar: tokens / 1_000_000 * rate.
EstimateRequestCost(model, tokens_in, tokens_out) ==
    tokens_in * Rates(model)[1] + tokens_out * Rates(model)[2]

\* RequestHistory::default() (derived)
RequestHistory_default ==
    [requests |-> <<>>, total_tokens_in |-> 0, total_tokens_out |-> 0,
     total_cost_usd |-> 0]

\* serde_json under #[serde(rename_all = "camelCase")], RequestLog and
\* RequestHistory
SerializeRequest(r) ==
    [id |-> r.id, model |-> r.model, tokensIn |-> r.tokens_in, tokensOut |-> r.tokens_out]

DeserializeRequest(j) ==
    [id |-> j.id, model |-> j.model, tokens_in |-> j.tokensIn, tokens_out |-> j.tokensOut]

SerializeHistory(h) ==
    [requests |-> [i \in 1..Len(h.requests) |-> SerializeRequest(h.requests[i])],
     totalTokensIn |-> h.total_tokens_in,
     totalTokensOut |-> h.total_tokens_out,
     totalCostUsd |-> h.total_cost_usd]

DeserializeHistory(j) ==
    [requests |-> [i \in 1..Len(j.requests) |-> DeserializeRequest(j.requests[i])],
     total_tokens_in |-> j.totalTokensIn,
     total_tokens_out |-> j.totalTokensOut,
     total_cost_usd |-> j.totalCostUsd]

\* lines 180-190: load_request_history
LoadRequestHistory(file) ==
    IF file # Absent /\ file[1].complete THEN DeserializeHistory(file[1].json)
                                         ELSE RequestHistory_default

Trimmed_all(history) == history

\* lines 195-199: the clone save_request_history writes, its last 100 requests
Trimmed(history) ==
    IF Len(history.requests) > HistoryCap
      THEN [history EXCEPT !.requests =
              SubSeq(history.requests, Len(history.requests) - HistoryCap + 1,
                     Len(history.requests))]
      ELSE history

\* lines 193-202: save_request_history; std::fs::write succeeds, fails after
\* it truncated the file, or fails to open it
HistoryFileAfter(file, history, outcome) ==
    CASE outcome = "ok" -> File(TRUE, SerializeHistory(Trimmed(history)))
      [] outcome = "partial" -> File(FALSE, SerializeHistory(Trimmed(history)))
      [] outcome = "denied" -> file

TotalAfter_same(total, amount) == total

\* lines 700-702: history.total_.. += ..
TotalAfter(total, amount) == total + amount

NoHistRet == [op |-> "", ret |-> Res("", "")]

\* lines 691-711: add_request_to_history(request)
AddRequestToHistory(read_ok, outcome) ==
    /\ offered < MaxEvents
    /\ ~read_ok => history_json # Absent
    /\ (~read_ok \/ outcome # "ok") => upsets < MaxUpsets
    /\ LET request == EventAt(offered + 1)
           on_disk == LoadRequestHistory(ReadToString(history_json, read_ok))
           tokens_in == UnwrapOr(request.tokens_in, 0)
           tokens_out == UnwrapOr(request.tokens_out, 0)
           cost == EstimateRequestCost(request.model, tokens_in, tokens_out)
           history ==
             [requests |-> Append(on_disk.requests, request),
              total_tokens_in |-> TotalAfter(on_disk.total_tokens_in, tokens_in),
              total_tokens_out |-> TotalAfter(on_disk.total_tokens_out, tokens_out),
              total_cost_usd |-> TotalAfter(on_disk.total_cost_usd, cost)]
       IN  /\ history_json' = HistoryFileAfter(history_json, history, outcome)
           /\ hist_ret' = [op |-> "add_request_to_history",
                           ret |-> IF outcome = "ok" THEN Res("Ok", history)
                                                     ELSE Res("Err", "write")]
    /\ offered' = offered + 1
    /\ accepted' = IF outcome = "ok" THEN Append(accepted, offered + 1) ELSE accepted
    /\ kept' = CASE outcome = "ok" ->
                      Append(IF read_ok THEN kept ELSE <<>>, offered + 1)
                 [] outcome = "partial" -> <<>>
                 [] outcome = "denied" -> kept
    /\ upsets' = IF read_ok /\ outcome = "ok" THEN upsets ELSE upsets + 1
    /\ UNCHANGED <<supVars, fsVars, oauthVars, netVars, logVars, lockVars, linkVars>>

\* lines 714-718: clear_request_history
ClearRequestHistory(outcome) ==
    /\ upsets < MaxUpsets
    /\ history_json' = HistoryFileAfter(history_json, RequestHistory_default, outcome)
    /\ hist_ret' = [op |-> "clear_request_history",
                    ret |-> IF outcome = "ok" THEN Res("Ok", "")
                                              ELSE Res("Err", "write")]
    /\ accepted' = IF outcome = "ok" THEN <<>> ELSE accepted
    /\ kept' = IF outcome = "denied" THEN kept ELSE <<>>
    /\ upsets' = upsets + 1
    /\ UNCHANGED offered
    /\ UNCHANGED <<supVars, fsVars, oauthVars, netVars, logVars, lockVars, linkVars>>

\* lines 684-687: get_request_history
GetRequestHistory(read_ok) ==
    /\ ~read_ok => history_json # Absent
    /\ hist_ret' = [op |-> "get_request_history",
                    ret |-> Res("Ok", LoadRequestHistory(
                                         ReadToString(history_json, read_ok)))]
    /\ UNCHANGED <<history_json, offered, accepted, kept, upsets>>
    /\ UNCHANGED <<supVars, fsVars, oauthVars, netVars, logVars, lockVars, linkVars>>

\* A first run: no history.json yet
HistInit ==
    /\ history_json = Absent
    /\ hist_ret = NoHistRet
    /\ offered = 0
    /\ accepted = <<>>
    /\ kept = <<>>
    /\ upsets = 0


----------------------------------------------------------------------------
(* lib.rs: the commands that call the sidecar over HTTP *)

\* A GET request as reqwest sends it; query is a name and a value, or <<>>;
\* timeout is in seconds.
Request(host, port, path, query, headers, timeout) ==
    [host |-> host, port |-> port, path |-> path, query |-> query,
     headers |-> headers, timeout |-> timeout]

\* reqwest::Client::new() and no .timeout(..) on the request: no timeout at all
NoTimeout == 0

ManagementKey == <<"X-Management-Key", "proxypal-mgmt-key">>
LocalBearer == <<"Authorization", "Bearer proxypal-local">>

\* lines 585-590: the request of get_usage_stats
UsageRequest(port) ==
    Request("127.0.0.1", port, "/v0/management/usage", <<>>, {}, 5)

\* lines 729-738: the auth-url endpoint of each provider
AuthUrlPath(provider) ==
    CASE provider = "claude" -> "/v0/management/anthropic-auth-url"
      [] provider = "openai" -> "/v0/management/codex-auth-url"
      [] provider = "gemini" -> "/v0/management/gemini-cli-auth-url"
      [] provider = "qwen" -> "/v0/management/qwen-auth-url"
      [] provider = "iflow" -> "/v0/management/iflow-auth-url"
      [] provider = "antigravity" -> "/v0/management/antigravity-auth-url"

\* lines 729-745: the request of open_oauth
AuthUrlRequest(provider, port) ==
    Request("localhost", port, AuthUrlPath(provider), <<"is_webui", "true">>,
            {ManagementKey}, NoTimeout)

\* lines 795-803: the request of poll_oauth_status
AuthStatusRequest(oauth_state, port) ==
    Request("localhost", port, "/v0/management/get-auth-status",
            <<"state", oauth_state>>, {ManagementKey}, NoTimeout)

\* lines 1062-1072: the request of check_provider_health
HealthRequest(port) ==
    Request("localhost", port, "/v1/models", <<>>, {LocalBearer}, 5)

\* lines 1154-1164: the request of test_agent_connection
ConnectionRequest(port) ==
    Request("localhost", port, "/v1/models", <<>>, {LocalBearer}, 10)

\* A call in flight.
Call(op, arg, auth, request) ==
    [op |-> op, arg |-> arg, auth |-> auth, request |-> request]

----------------------------------------------------------------------------
(* serde_json values, and the usage body get_usage_stats reads *)

None == <<>>
Some(x) == <<x>>

Num(n) == [t |-> "num", v |-> n]
Str(s) == [t |-> "str", v |-> s]
Arr(items) == [t |-> "arr", v |-> items]
\* An object is its members in the order a walk visits them; keys are distinct.
Obj(members) == [t |-> "obj", v |-> members]
Member(k, v) == [k |-> k, v |-> v]

RECURSIVE Lookup(_, _, _)
Lookup(members, key, i) ==
    IF i > Len(members) THEN None
    ELSE IF members[i].k = key THEN Some(members[i].v)
    ELSE Lookup(members, key, i + 1)

\* Value::get(key): None unless the value is an object that has the key
JsonGet(j, key) == IF j.t = "obj" THEN Lookup(j.v, key, 1) ELSE None

\* Option<&Value>::and_then(|v| v.as_u64()), .as_object(), .as_array()
AsU64(opt) ==
    IF Len(opt) = 0 THEN None
    ELSE IF opt[1].t = "num" /\ opt[1].v >= 0 THEN Some(opt[1].v) ELSE None

AsObject(opt) ==
    IF Len(opt) = 0 THEN None ELSE IF opt[1].t = "obj" THEN opt ELSE None

AsArray(opt) ==
    IF Len(opt) = 0 THEN None ELSE IF opt[1].t = "arr" THEN opt ELSE None

U64Or0_one(j, key) == IF Len(JsonGet(j, key)) = 0 THEN 0 ELSE 1

\* j.get(key).and_then(|v| v.as_u64()).unwrap_or(0)
U64Or0(j, key) ==
    IF Len(AsU64(JsonGet(j, key))) = 0 THEN 0 ELSE AsU64(JsonGet(j, key))[1]

\* lines 615-627: the entry of today in a map keyed by day
Today == "2026-11-06"

TodayOr0(usage, key) ==
    IF Len(AsObject(JsonGet(usage, key))) = 0 THEN 0
    ELSE U64Or0(AsObject(JsonGet(usage, key))[1], Today)

\* lines 642-649: the sum of tokens.<key> over the details of a model; the sums
\* of the bodies tried stay far below 2^64
RECURSIVE DetailTokens(_, _, _)
DetailTokens(details, key, i) ==
    IF i > Len(details) THEN 0
    ELSE (IF Len(JsonGet(details[i], "tokens")) = 0 THEN 0
          ELSE U64Or0(JsonGet(details[i], "tokens")[1], key))
         + DetailTokens(details, key, i + 1)

ModelTokens(model_data, key) ==
    IF Len(AsArray(JsonGet(model_data, "details"))) = 0 THEN 0
    ELSE DetailTokens(AsArray(JsonGet(model_data, "details"))[1].v, key, 1)

ModelUsage(model, requests, tokens) ==
    [model |-> model, requests |-> requests, tokens |-> tokens]

\* lines 652-661: add to the entry of the same model, or push a new one
Pushed(models, m) ==
    IF \E i \in 1..Len(models) : models[i].model = m.model
      THEN LET i == CHOOSE n \in 1..Len(models) : models[n].model = m.model
           IN [models EXCEPT ![i].requests = @ + m.requests,
                             ![i].tokens = @ + m.tokens]
      ELSE Append(models, m)

\* lines 637-662: walk the models of one endpoint
RECURSIVE WalkModels(_, _, _)
WalkModels(members, i, acc) ==
    IF i > Len(members) THEN acc
    ELSE WalkModels(members, i + 1,
           [models |-> Pushed(acc.models,
                              ModelUsage(members[i].k,
                                         U64Or0(members[i].v, "total_requests"),
                                         U64Or0(members[i].v, "total_tokens"))),
            input_tokens |-> acc.input_tokens
                                + ModelTokens(members[i].v, "input_tokens"),
            output_tokens |-> acc.output_tokens
                                + ModelTokens(members[i].v, "output_tokens")])

\* lines 634-664: walk the endpoints of apis
RECURSIVE WalkApis(_, _, _)
WalkApis(members, i, acc) ==
    IF i > Len(members) THEN acc
    ELSE WalkApis(members, i + 1,
           IF Len(AsObject(JsonGet(members[i].v, "models"))) = 0 THEN acc
           ELSE WalkModels(AsObject(JsonGet(members[i].v, "models"))[1].v, 1, acc))

\* slice::sort_by(|a, b| b.requests.cmp(&a.requests)): stable, descending
RECURSIVE InsertByRequests(_, _)
InsertByRequests(sorted, m) ==
    IF sorted = <<>> THEN <<m>>
    ELSE IF Head(sorted).requests >= m.requests
           THEN <<Head(sorted)>> \o InsertByRequests(Tail(sorted), m)
           ELSE <<m>> \o sorted

RECURSIVE SortByRequests(_, _, _)
SortByRequests(models, i, acc) ==
    IF i > Len(models) THEN acc
    ELSE SortByRequests(models, i + 1, InsertByRequests(acc, models[i]))

\* #[derive(Default)] of UsageStats
UsageStats_default ==
    [total_requests |-> 0, success_count |-> 0, failure_count |-> 0,
     total_tokens |-> 0, input_tokens |-> 0, output_tokens |-> 0,
     requests_today |-> 0, tokens_today |-> 0, models |-> <<>>]

\* lines 605-680: the snapshot get_usage_stats builds from a JSON body
ParseUsage(json) ==
    LET usage == IF Len(JsonGet(json, "usage")) = 0 THEN json
                 ELSE JsonGet(json, "usage")[1]
        walked == IF Len(AsObject(JsonGet(usage, "apis"))) = 0
                    THEN [models |-> <<>>, input_tokens |-> 0, output_tokens |-> 0]
                    ELSE WalkApis(AsObject(JsonGet(usage, "apis"))[1].v, 1,
                                  [models |-> <<>>, input_tokens |-> 0,
                                   output_tokens |-> 0])
    IN [total_requests |-> U64Or0(usage, "total_requests"),
        success_count |-> U64Or0(usage, "success_count"),
        failure_count |-> U64Or0(usage, "failure_count"),
        total_tokens |-> U64Or0(usage, "total_tokens"),
        input_tokens |-> walked.input_tokens,
        output_tokens |-> walked.output_tokens,
        requests_today |-> TodayOr0(usage, "requests_by_day"),
        tokens_today |-> TodayOr0(usage, "tokens_by_day"),
        models |-> SortByRequests(walked.models, 1, <<>>)]

\* The JSON bodies tried, by shape: where the usage data sits (at the top, in a
\* "usage" envelope, beside a "usage" that is no object, or nowhere because the
\* body is an array), and what the totals, the by-day maps and apis look like.
UsageShape(envelope, totals, days, apis) ==
    [envelope |-> envelope, totals |-> totals, days |-> days, apis |-> apis]

NoShape == UsageShape("", "", "", "")

UsageShapes ==
    {UsageShape(e, t, d, a) :
        e \in {"top", "usage", "bad_usage", "array_body"},
        t \in {"missing", "string", "negative", "number"},
        d \in {"missing", "not_object", "other_day", "today"},
        a \in {"missing", "not_object", "no_models", "no_details", "no_tokens",
               "full"}}

TotalsOf(kind) ==
    CASE kind = "missing" -> <<>>
      [] kind = "string" ->
           <<Member("total_requests", Str("9")), Member("success_count", Str("7")),
             Member("failure_count", Str("2")), Member("total_tokens", Str("50"))>>
      [] kind = "negative" ->
           <<Member("total_requests", Num(-9)), Member("success_count", Num(-7)),
             Member("failure_count", Num(-2)), Member("total_tokens", Num(-50))>>
      [] kind = "number" ->
           <<Member("total_requests", Num(9)), Member("success_count", Num(7)),
             Member("failure_count", Num(2)), Member("total_tokens", Num(50))>>

DaysOf(kind) ==
    CASE kind = "missing" -> <<>>
      [] kind = "not_object" ->
           <<Member("requests_by_day", Num(4)), Member("tokens_by_day", Num(20))>>
      [] kind = "other_day" ->
           <<Member("requests_by_day", Obj(<<Member("2000-01-01", Num(4))>>)),
             Member("tokens_by_day", Obj(<<Member("2000-01-01", Num(20))>>))>>
      [] kind = "today" ->
           <<Member("requests_by_day",
                    Obj(<<Member("2000-01-01", Num(1)), Member(Today, Num(4))>>)),
             Member("tokens_by_day", Obj(<<Member(Today, Num(20))>>))>>

Tokens(input, output) ==
    Obj(<<Member("tokens", Obj(<<Member("input_tokens", Num(input)),
                                 Member("output_tokens", Num(output))>>))>>)

ApisOf(kind) ==
    CASE kind = "missing" -> <<>>
      [] kind = "not_object" -> <<Member("apis", Arr(<<>>))>>
      [] kind = "no_models" -> <<Member("apis", Obj(<<Member("ep1", Obj(<<>>))>>))>>
      [] kind = "no_details" ->
           <<Member("apis", Obj(<<Member("ep1", Obj(<<Member("models", Obj(<<
               Member("m1", Obj(<<Member("total_requests", Num(2)),
                                  Member("total_tokens", Num(10))>>))>>))>>))>>))>>
      [] kind = "no_tokens" ->
           <<Member("apis", Obj(<<Member("ep1", Obj(<<Member("models", Obj(<<
               Member("m1", Obj(<<Member("total_requests", Num(2)),
                                  Member("total_tokens", Num(10)),
                                  Member("details", Arr(<<Obj(<<>>), Str("x")>>))
                                >>))>>))>>))>>))>>
      [] kind = "full" ->
           <<Member("apis", Obj(<<
               Member("ep1", Obj(<<Member("models", Obj(<<
                   Member("m1", Obj(<<Member("total_requests", Num(2)),
                                      Member("total_tokens", Num(10)),
                                      Member("details",
                                             Arr(<<Tokens(3, 1),
                                                   Obj(<<Member("tokens", Obj(<<
                                                       Member("input_tokens", Num(2))
                                                   >>))>>)>>))>>)),
                   Member("m2", Obj(<<Member("total_requests", Num(7)),
                                      Member("total_tokens", Num(30)),
                                      Member("details", Arr(<<Tokens(4, 6)>>))>>))
               >>))>>)),
               Member("ep2", Obj(<<Member("models", Obj(<<
                   Member("m1", Obj(<<Member("total_requests", Num(4)),
                                      Member("total_tokens", Num(5))>>))>>))>>))
           >>))>>

UsageBody(shape) ==
    LET data == TotalsOf(shape.totals) \o DaysOf(shape.days) \o ApisOf(shape.apis)
    IN CASE shape.envelope = "top" -> Obj(data)
         [] shape.envelope = "usage" -> Obj(<<Member("usage", Obj(data))>>)
         [] shape.envelope = "bad_usage" -> Obj(<<Member("usage", Str(""))>> \o data)
         [] shape.envelope = "array_body" -> Arr(<<Obj(data)>>)

\* What the usage endpoint may answer: no answer at all, a non-success status,
\* a body that is not JSON, or a JSON body of one of the shapes.
OkJson == Response("http", TRUE, TRUE, "", "", "")

UsageAnswers ==
    {[resp |-> r, shape |-> NoShape] : r \in FailedResponses} \cup
    {[resp |-> OkJson, shape |-> s] : s \in UsageShapes}

\* A command returns ret for the answer resp, whose JSON body has the shape.
NetRet(op, resp, shape, ret) == Answer(op, shape, resp, ret, "", NoEvent)

\* The cells of the OAuth commands, which the other commands leave alone.
oauthCells ==
    <<pending_oauth, auth_status, auth_json, refreshing, opening, completing>>

UsageOffline_never(status) == FALSE

\* line 579: if !status.running { return Ok(UsageStats::default()); }
UsageOffline(status) == ~status.running

\* lines 576-591: get_usage_stats returns the default snapshot when the proxy
\* is not running, and else sends its request to the port of the config
GetUsageStats ==
    /\ wire = Absent
    /\ IF UsageOffline(proxy_status)
         THEN /\ answered' = NetRet("get_usage_stats", NoResponse, NoShape,
                                   Res("Ok", UsageStats_default))
              /\ UNCHANGED wire
         ELSE /\ wire' = <<Call("get_usage_stats", "", AuthStatus_default,
                                UsageRequest(config.port))>>
              /\ answered' = NoAnswer
    /\ UNCHANGED <<supVars, fsVars, oauthCells, histVars, logVars, lockVars, linkVars>>

\* lines 592-680: the result of get_usage_stats for an answer
UsageResult(resp, shape) ==
    IF resp.kind = "transport_error" THEN Res("Err", "Failed to fetch usage")
    ELSE IF ~resp.success THEN Res("Ok", UsageStats_default)
    ELSE IF ~resp.json THEN Res("Err", "Failed to parse usage response")
    ELSE Res("Ok", ParseUsage(UsageBody(shape)))

\* lines 591-680: the answer arrives, or the call fails; get_usage_stats returns
UsageAnswered(answer) ==
    /\ wire # Absent /\ wire[1].op = "get_usage_stats"
    /\ wire' = Absent
    /\ answered' = NetRet("get_usage_stats", answer.resp, answer.shape,
                         UsageResult(answer.resp, answer.shape))
    /\ UNCHANGED <<supVars, fsVars, oauthCells, histVars, logVars, lockVars, linkVars>>

\* lines 721-746: open_oauth refuses vertex and unknown providers, and else
\* sends its request to the port of the config
OpenOAuthSend(provider) ==
    /\ wire = Absent
    /\ IF provider \notin OAuthProviders
         THEN /\ OpenStored(provider, NoResponse)
              /\ UNCHANGED wire
         ELSE /\ opening = Absent
              /\ wire' = <<Call("open_oauth", provider, AuthStatus_default,
                                AuthUrlRequest(provider, config.port))>>
              /\ answered' = NoAnswer
              /\ UNCHANGED <<oauthCells, retired>>
    /\ UNCHANGED <<supVars, fsVars, histVars, logVars, lockVars>>

\* lines 746-777: the answer arrives, or the call fails; open_oauth returns an
\* error or stores the flow
OpenAnswered(resp) ==
    /\ wire # Absent /\ wire[1].op = "open_oauth"
    /\ wire' = Absent
    /\ OpenStored(wire[1].arg, resp)
    /\ UNCHANGED <<supVars, fsVars, histVars, logVars, lockVars>>

\* lines 789-804: poll_oauth_status sends its request to the port of the config
PollOAuthStatusSend(oauth_state) ==
    /\ wire = Absent
    /\ wire' = <<Call("poll_oauth_status", oauth_state, AuthStatus_default,
                      AuthStatusRequest(oauth_state, config.port))>>
    /\ answered' = NoAnswer
    /\ UNCHANGED <<pending_oauth, auth_status, auth_json, refreshing, opening,
                   completing>>
    /\ UNCHANGED <<supVars, fsVars, histVars, logVars, lockVars, linkVars>>

\* lines 804-819: the answer arrives, or the call fails; poll_oauth_status
\* returns
PollAnswered(resp) ==
    /\ wire # Absent /\ wire[1].op = "poll_oauth_status"
    /\ wire' = Absent
    /\ PollFinished(wire[1].arg, resp)
    /\ UNCHANGED <<supVars, fsVars, histVars, logVars, lockVars, linkVars>>

\* lines 1049-1059: every provider is offline when the proxy is not running
AllOffline == [p \in AuthProviders |-> "offline"]

\* lines 1077-1127: the health of each provider, from its flag in the
\* auth_status cloned before the call and from whether the proxy answered with
\* a success status
ProviderHealth(auth, proxy_healthy) ==
    [p \in AuthProviders |->
        IF auth[p] /\ proxy_healthy THEN "healthy"
        ELSE IF auth[p] THEN "degraded"
        ELSE "unconfigured"]

\* lines 1039-1073: check_provider_health clones the config and auth_status,
\* reads proxy_status.running, and sends its request unless the proxy is not
\* running
CheckProviderHealth ==
    /\ wire = Absent
    /\ IF ~proxy_status.running
         THEN /\ answered' = NetRet("check_provider_health", NoResponse, NoShape,
                                   Res("Ok", AllOffline))
              /\ UNCHANGED wire
         ELSE /\ wire' = <<Call("check_provider_health", "", auth_status,
                                HealthRequest(config.port))>>
              /\ answered' = NoAnswer
    /\ UNCHANGED <<supVars, fsVars, oauthCells, histVars, logVars, lockVars, linkVars>>

\* lines 1073-1127: the answer arrives, or the call fails; check_provider_health
\* returns
HealthAnswered(resp) ==
    /\ wire # Absent /\ wire[1].op = "check_provider_health"
    /\ wire' = Absent
    /\ answered' = NetRet("check_provider_health", resp, NoShape,
                         Res("Ok", ProviderHealth(wire[1].auth,
                                                  resp.kind = "http" /\ resp.success)))
    /\ UNCHANGED <<supVars, fsVars, oauthCells, histVars, logVars, lockVars, linkVars>>

AgentTestResult(success, message, latency) ==
    [success |-> success, message |-> message, latency |-> latency]

\* lines 1142-1165: test_agent_connection clones the config, reads
\* proxy_status.running, and sends its request unless the proxy is not running
TestAgentConnection(agent_id) ==
    /\ wire = Absent
    /\ IF ~proxy_status.running
         THEN /\ answered' = NetRet("test_agent_connection", NoResponse, NoShape,
                                   Res("Ok", AgentTestResult(FALSE,
                                                 "Proxy is not running", FALSE)))
              /\ UNCHANGED wire
         ELSE /\ wire' = <<Call("test_agent_connection", agent_id,
                                AuthStatus_default, ConnectionRequest(config.port))>>
              /\ answered' = NoAnswer
    /\ UNCHANGED <<supVars, fsVars, oauthCells, histVars, logVars, lockVars, linkVars>>

\* lines 1168-1191: the result of test_agent_connection for an answer
ConnectionResult(resp) ==
    IF resp.kind = "transport_error"
      THEN AgentTestResult(FALSE, "Connection failed", FALSE)
    ELSE IF resp.success
      THEN AgentTestResult(TRUE, "Connection successful", TRUE)
    ELSE AgentTestResult(FALSE, "Proxy returned status", TRUE)

\* lines 1165-1191: the answer arrives, or the call fails; test_agent_connection
\* returns
ConnectionAnswered(resp) ==
    /\ wire # Absent /\ wire[1].op = "test_agent_connection"
    /\ wire' = Absent
    /\ answered' = NetRet("test_agent_connection", resp, NoShape,
                         Res("Ok", ConnectionResult(resp)))
    /\ UNCHANGED <<supVars, fsVars, oauthCells, histVars, logVars, lockVars, linkVars>>

TimedOut == Response("transport_error", FALSE, FALSE, "", "", "")

\* reqwest's timer: a request that was given a timeout fails when the time is
\* up, which the command sees as a failed call
HttpTimeout ==
    /\ wire # Absent
    /\ wire[1].request.timeout # NoTimeout
    /\ CASE wire[1].op = "get_usage_stats" ->
              UsageAnswered([resp |-> TimedOut, shape |-> NoShape])
         [] wire[1].op = "open_oauth" -> OpenAnswered(TimedOut)
         [] wire[1].op = "poll_oauth_status" -> PollAnswered(TimedOut)
         [] wire[1].op = "check_provider_health" -> HealthAnswered(TimedOut)
         [] wire[1].op = "test_agent_connection" -> ConnectionAnswered(TimedOut)

NetInit == wire = Absent

----------------------------------------------------------------------------
(* lib.rs: the parser of the sidecar's log lines; utils.rs: the provider of a
   model name.  Text is a string; Len, SubSeq and \o work on strings. *)

UpperCase == "ABCDEFGHIJKLMNOPQRSTUVWXYZ"
LowerCase == "abcdefghijklmnopqrstuvwxyz"

\* str::to_lowercase, for ASCII text
RECURSIVE ToLowercase(_)
ToLowercase(s) ==
    IF Len(s) = 0 THEN ""
    ELSE LET c == SubSeq(s, 1, 1)
             up == {i \in 1..26 : SubSeq(UpperCase, i, i) = c}
         IN (IF up = {} THEN c
             ELSE SubSeq(LowerCase, CHOOSE i \in up : TRUE, CHOOSE i \in up : TRUE))
            \o ToLowercase(SubSeq(s, 2, Len(s)))

\* str::trim, for the blanks that occur
RECURSIVE Trim(_)
Trim(s) ==
    IF Len(s) = 0 THEN s
    ELSE IF SubSeq(s, 1, 1) = " " THEN Trim(SubSeq(s, 2, Len(s)))
    ELSE IF SubSeq(s, Len(s), Len(s)) = " " THEN Trim(SubSeq(s, 1, Len(s) - 1))
    ELSE s

\* str::split(|c| ..): the pieces between the characters of delims, in order
RECURSIVE Split(_, _, _, _)
Split(s, delims, i, word) ==
    IF i > Len(s) THEN <<word>>
    ELSE IF SubSeq(s, i, i) \in delims
           THEN <<word>> \o Split(s, delims, i + 1, "")
           ELSE Split(s, delims, i + 1, word \o SubSeq(s, i, i))

Digits == "0123456789"

\* The value of a run of digits, counted no further than max + 1; -1 when a
\* character is no digit.
RECURSIVE DigitsValue(_, _, _, _)
DigitsValue(s, max, i, acc) ==
    IF i > Len(s) THEN acc
    ELSE LET d == {n \in 1..10 : SubSeq(Digits, n, n) = SubSeq(s, i, i)}
         IN IF d = {} THEN -1
            ELSE LET v == acc * 10 + (CHOOSE n \in d : TRUE) - 1
                 IN DigitsValue(s, max, i + 1, IF v > max THEN max + 1 ELSE v)

\* str::parse::<u16>() and ::<u64>(): an optional + and at least one digit, the
\* value at most max; None otherwise
ParseUnsigned(word, max) ==
    LET digits == IF Len(word) > 0 /\ SubSeq(word, 1, 1) = "+"
                    THEN SubSeq(word, 2, Len(word)) ELSE word
        v == DigitsValue(digits, max, 1, 0)
    IN IF Len(digits) = 0 \/ v < 0 \/ v > max THEN None ELSE Some(v)

RECURSIVE FirstStatus_any(_, _)
FirstStatus_any(words, i) ==
    IF i > Len(words) THEN None
    ELSE IF Len(ParseUnsigned(words[i], 65535)) > 0 THEN ParseUnsigned(words[i], 65535)
    ELSE FirstStatus_any(words, i + 1)

\* lines 386-393: the first word that parses as a u16 in 100..600
RECURSIVE FirstStatus(_, _)
FirstStatus(words, i) ==
    IF i > Len(words) THEN None
    ELSE LET code == ParseUnsigned(words[i], 65535)
         IN IF Len(code) > 0 /\ code[1] >= 100 /\ code[1] < 600 THEN code
            ELSE FirstStatus(words, i + 1)

\* lines 384-395: extract_status_code
ExtractStatusCode(line) == FirstStatus(Split(line, {" ", ")", "(", ":", ">"}, 1, ""), 1)

\* str::trim_end_matches(suf)
RECURSIVE TrimEndMatches(_, _)
TrimEndMatches(s, suf) ==
    IF EndsWith(s, suf) THEN TrimEndMatches(SubSeq(s, 1, Len(s) - Len(suf)), suf)
    ELSE s

\* str::parse::<f64>() times 1000.0 as u64, for the forms that occur: digits,
\* or digits followed by .5
Millis(secs) ==
    IF EndsWith(secs, ".5")
      THEN LET n == ParseUnsigned(SubSeq(secs, 1, Len(secs) - 2), 1000000)
           IN IF Len(n) = 0 THEN None ELSE Some(n[1] * 1000 + 500)
      ELSE LET n == ParseUnsigned(secs, 1000000)
           IN IF Len(n) = 0 THEN None ELSE Some(n[1] * 1000)

\* lines 400-411: the first word that is a duration
RECURSIVE FirstDuration(_, _)
FirstDuration(words, i) ==
    IF i > Len(words) THEN None
    ELSE LET word == words[i]
             found == IF EndsWith(word, "ms")
                        THEN ParseUnsigned(TrimEndMatches(word, "ms"), 1000000)
                      ELSE IF EndsWith(word, "s")
                        THEN Millis(TrimEndMatches(word, "s"))
                      ELSE None
         IN IF Len(found) > 0 THEN found ELSE FirstDuration(words, i + 1)

\* lines 398-413: extract_duration
ExtractDuration(line) == FirstDuration(Split(line, {" "}, 1, ""), 1)

\* lines 278-286: the line has a method and an API path
HasMethod(line) ==
    Contains(line, "POST") \/ Contains(line, "GET") \/ Contains(line, "PUT")
        \/ Contains(line, "DELETE")

HasApiPath_models(line) == Contains(line, "/v1/")

\* lines 281-283
HasApiPath(line) ==
    Contains(line, "/v1/chat/completions") \/ Contains(line, "/v1/messages")
        \/ Contains(line, "/v1/completions")

IsNoise_never(line_lower) == FALSE

\* lines 289-295: the line is a startup or info message
IsNoise(line_lower) ==
    \/ Contains(line_lower, "listening") \/ Contains(line_lower, "starting")
    \/ Contains(line_lower, "loaded") \/ Contains(line_lower, "config")
    \/ Contains(line_lower, "error:") \/ Contains(line_lower, "warn:")

\* lines 297-308
MethodOf(line) ==
    IF Contains(line, "POST") THEN "POST"
    ELSE IF Contains(line, "GET") THEN "GET"
    ELSE IF Contains(line, "PUT") THEN "PUT"
    ELSE IF Contains(line, "DELETE") THEN "DELETE"
    ELSE "POST"

\* lines 310-319
PathOf(line) ==
    IF Contains(line, "/v1/chat/completions") THEN "/v1/chat/completions"
    ELSE IF Contains(line, "/v1/messages") THEN "/v1/messages"
    ELSE IF Contains(line, "/v1/completions") THEN "/v1/completions"
    ELSE "/v1/chat/completions"

\* The line routes to the provider: "-> name" or "[name]".
Routed(line_lower, name) ==
    Contains(line_lower, "-> " \o name) \/ Contains(line_lower, "[" \o name \o "]")

\* lines 321-356
ProviderOf(line, line_lower) ==
    IF \E w \in {"claude", "anthropic", "sonnet", "opus", "haiku"} : Contains(line, w)
      THEN "claude"
    ELSE IF \E w \in {"gpt", "codex", "openai"} : Contains(line, w) THEN "openai"
    ELSE IF \E w \in {"gemini", "google"} : Contains(line, w) THEN "gemini"
    ELSE IF Contains(line, "qwen") THEN "qwen"
    ELSE IF Contains(line, "iflow") THEN "iflow"
    ELSE IF Contains(line, "vertex") THEN "vertex"
    ELSE IF Contains(line, "antigravity") THEN "antigravity"
    ELSE IF Routed(line_lower, "claude") THEN "claude"
    ELSE IF Routed(line_lower, "openai") \/ Contains(line_lower, "[codex]")
      THEN "openai"
    ELSE IF Routed(line_lower, "gemini") THEN "gemini"
    ELSE IF Routed(line_lower, "qwen") THEN "qwen"
    ELSE IF Routed(line_lower, "iflow") THEN "iflow"
    ELSE IF Routed(line_lower, "vertex") THEN "vertex"
    ELSE IF Routed(line_lower, "antigravity") THEN "antigravity"
    ELSE "unknown"

\* lines 267-381: parse_request_log: the event, if any, and the counter after
\* it; the event's timestamp, the time of the call, is left out
ParseRequestLog(line, counter) ==
    LET line_trimmed == Trim(line)
        line_lower == ToLowercase(line_trimmed)
    IN IF ~HasMethod(line_trimmed) \/ ~HasApiPath(line_trimmed) THEN
           [event |-> None, counter |-> counter]
       ELSE IF IsNoise(line_lower) THEN [event |-> None, counter |-> counter]
       ELSE [event |->
                Some([id |-> <<"req_", counter + 1>>,
                      provider |-> ProviderOf(line_trimmed, line_lower),
                      model |-> "auto",
                      method |-> MethodOf(line_trimmed),
                      path |-> PathOf(line_trimmed),
                      status |-> UnwrapOr(ExtractStatusCode(line_trimmed), 200),
                      duration_ms |-> UnwrapOr(ExtractDuration(line_trimmed), 0),
                      tokens_in |-> None, tokens_out |-> None]),
             counter |-> counter + 1]

DetectProviderFromModel_claude(model) ==
    LET model_lower == ToLowercase(model)
    IN IF \E w \in {"claude", "sonnet", "opus", "haiku"} : Contains(model_lower, w)
         THEN "claude"
       ELSE IF StartsWith(model_lower, "gemini-claude")
                 \/ Contains(model_lower, "antigravity") THEN "antigravity"
       ELSE "unknown"

\* utils.rs lines 29-61: detect_provider_from_model
DetectProviderFromModel(model) ==
    LET model_lower == ToLowercase(model)
    IN IF StartsWith(model_lower, "gemini-claude")
            \/ Contains(model_lower, "antigravity") THEN "antigravity"
       ELSE IF \E w \in {"claude", "sonnet", "opus", "haiku"} :
                  Contains(model_lower, w) THEN "claude"
       ELSE IF \/ Contains(model_lower, "gpt") \/ Contains(model_lower, "codex")
               \/ StartsWith(model_lower, "o3") \/ StartsWith(model_lower, "o1")
              THEN "openai"
       ELSE IF Contains(model_lower, "gemini") THEN "gemini"
       ELSE IF Contains(model_lower, "qwen") THEN "qwen"
       ELSE IF Contains(model_lower, "deepseek") THEN "deepseek"
       ELSE IF Contains(model_lower, "glm") THEN "zhipu"
       ELSE IF Contains(model_lower, "antigravity") THEN "antigravity"
       ELSE "unknown"

\* The log lines tried, by their parts: what comes first, the method, the path,
\* a word of the message, and the rest.
LogParts(lead, method, path, word, rest) ==
    [lead |-> lead, method |-> method, path |-> path, word |-> word, rest |-> rest]

Leads == {"", "[INFO]", "  2024/01/01 12:00:00"}
Methods == {"", "POST", "GET", "PUT", "DELETE", "post", "Get", "BUDGET"}
Paths == {"", "/v1/chat/completions", "/v1/messages", "/v1/completions",
          "/v1/models", "/V1/MESSAGES"}
Words == {"", "listening", "LISTENING", "Starting", "loaded", "reConfigured",
          "Error:", "warn:", "error", "warning", "[claude]", "sonnet"}
Rests == {"", "200", "404 123ms", "-> 500 (123ms)", "->503", "(429)", "status:301",
          "99 600 201 1.5s", "[302]", "+204", "0404", "70000 418", "404,", "2s 100"}

LogLines ==
    {LogParts(l, m, p, "", "200") : l \in Leads, m \in Methods, p \in Paths} \cup
    {LogParts("", m, p, w, "200") :
        m \in {"", "POST"}, p \in {"", "/v1/messages", "/v1/models"}, w \in Words} \cup
    {LogParts(l, "POST", "/v1/chat/completions", "", r) : l \in Leads, r \in Rests}

\* The text of a line: its parts with a blank between them.
LineOf(parts) ==
    parts.lead \o " " \o parts.method \o " " \o parts.path \o " " \o parts.word
        \o " " \o parts.rest \o " "

\* The model names tried, by their parts.
ModelParts(family, version) == [family |-> family, version |-> version]

ModelNames ==
    {ModelParts(f, v) :
        f \in {"gemini-claude", "Gemini-Claude", "GEMINI-CLAUDE", "x-gemini-claude",
               "gemini", "claude", "Claude", "sonnet", "opus", "haiku", "gpt",
               "codex", "o1", "o3", "so1", "qwen", "deepseek", "glm", "antigravity",
               "my-Antigravity", "llama"},
        v \in {"", "-3", "-sonnet-4-5", "-pro", "-antigravity", "-GPT"}}

NameOf(parts) == parts.family \o parts.version

\* The events a drain task may have counted before the line tried.
MaxRequests == 2

\* The lines one sidecar may print.
MaxLines == 3

NoScan == [op |-> "", input |-> "", done |-> FALSE, counter |-> 0, output |-> ""]

\* A text waits for its function.
Waiting(op, parts) ==
    [op |-> op, input |-> parts, done |-> FALSE, counter |-> 0, output |-> ""]

\* A line was parsed with the counter at n and gave the event, or none.
Scanned(parts, n, event) ==
    [op |-> "parse_request_log", input |-> parts, done |-> TRUE, counter |-> n,
     output |-> event]

\* The lines a sidecar prints in a run: two request lines, a health check, a
\* start-up message.
StreamLines ==
    {LogParts("", "POST", "/v1/chat/completions", "", "200"),
     LogParts("[INFO]", "GET", "/v1/messages", "", "-> 500 (123ms)"),
     LogParts("", "GET", "/v1/models", "", "200"),
     LogParts("", "POST", "/v1/messages", "LISTENING", "200")}

\* The sidecar p prints a line: the shell plugin queues CommandEvent::Stdout.
SidecarPrint(p, parts) ==
    /\ children[p].alive
    /\ Len(taken[p]) + Len(stdout[p]) < MaxLines
    /\ stdout' = [stdout EXCEPT ![p] = Append(@, parts)]
    /\ scanned' = NoScan
    /\ UNCHANGED <<request_counter, taken, request_log>>
    /\ UNCHANGED <<supVars, fsVars, oauthVars, histVars, netVars, lockVars, linkVars>>

RequestLogAfter_every(log, p, place, parsed) ==
    Append(log, [pid |-> p, of |-> place, id |-> <<"req_", parsed.counter>>])

\* lines 491-493: if let Some(log) = parse_request_log(..) { emit("request-log", log) }
RequestLogAfter(log, p, place, parsed) ==
    IF parsed.event = None THEN log
    ELSE Append(log, [pid |-> p, of |-> place, id |-> parsed.event[1].id])

\* lines 482-494: the drain task of sidecar p takes the oldest Stdout line from
\* the channel, parses it with its counter, and emits request-log for an event
DrainStdout(p) ==
    /\ stdout[p] # <<>>
    /\ children[p].rx # "closed"
    /\ LET parsed == ParseRequestLog(LineOf(Head(stdout[p])), request_counter[p])
       IN /\ request_counter' = [request_counter EXCEPT ![p] = parsed.counter]
          /\ request_log' = RequestLogAfter(request_log, p, Len(taken[p]) + 1, parsed)
          /\ scanned' = Scanned(Head(stdout[p]), request_counter[p], parsed.event)
    /\ taken' = [taken EXCEPT ![p] = Append(@, Head(stdout[p]))]
    /\ stdout' = [stdout EXCEPT ![p] = Tail(@)]
    /\ UNCHANGED <<supVars, fsVars, oauthVars, histVars, netVars, lockVars, linkVars>>

\* utils.rs lines 29-61: detect_provider_from_model is applied to the model name
DetectProvider ==
    /\ scanned.op = "detect_provider_from_model" /\ ~scanned.done
    /\ scanned' = [scanned EXCEPT
                       !.done = TRUE,
                       !.output = DetectProviderFromModel(NameOf(scanned.input))]
    /\ UNCHANGED <<request_counter, stdout, taken, request_log>>
    /\ UNCHANGED <<supVars, fsVars, oauthVars, histVars, netVars, lockVars, linkVars>>

\* line 481: let mut request_counter: u64 = 0, for the task of every spawn
NoLines == [p \in 1..MaxSpawns |-> <<>>]

LogInit ==
    /\ request_counter = [p \in 1..MaxSpawns |-> 0]
    /\ stdout = NoLines
    /\ taken = NoLines
    /\ request_log = <<>>
    /\ scanned = NoScan

----------------------------------------------------------------------------
(* lib.rs: the deep link that ends an OAuth flow in the browser *)

\* A URL handed to the application: its scheme, its path, and its code and
\* state query parameters, None when the URL has none.
DeepLink(scheme, path, code, state) ==
    [scheme |-> scheme, path |-> path, code |-> code, state |-> state]

DeepLinks ==
    {DeepLink(scheme, path, code, state) :
        scheme \in {"proxypal", "https"}, path \in {"/oauth/callback", "/oauth"},
        code \in {None, Some("code1")},
        state \in {None, Some(""), Some("st1"), Some("st2")}}

\* lines 1198-1202: the URL is an OAuth callback with both parameters
IsCallback(link) ==
    /\ link.scheme = "proxypal" /\ link.path = "/oauth/callback"
    /\ link.code # None /\ link.state # None

StateMatches_any(pending, link) == pending # NoPending

\* lines 1207-1208: a flow is pending and its state is the link's
StateMatches(pending, link) == pending # NoPending /\ pending[1].state = link.state[1]

\* lines 1196-1229: handle_deep_link for one URL of the list: clone the pending
\* slot under its lock and emit oauth-callback for a callback of that flow
HandleDeepLink(link) ==
    /\ answered' =
          Answer("handle_deep_link", link, NoResponse, Res("Ok", ""),
                 PendingProvider(pending_oauth),
                 IF IsCallback(link) /\ StateMatches(pending_oauth, link)
                   THEN <<[provider |-> pending_oauth[1].provider,
                           code |-> link.code[1]]>>
                   ELSE NoEvent)
    /\ UNCHANGED <<pending_oauth, auth_status, auth_json, refreshing, opening,
                   completing>>
    /\ UNCHANGED <<supVars, fsVars, histVars, netVars, logVars, lockVars, linkVars>>

LinkInit == retired = <<>>

----------------------------------------------------------------------------
(* lib.rs: the five Mutex cells of AppState and what each command and the
   drain task does between taking and dropping their guards.  A program is the
   sequence of what one run of a command does, in source order; a command with
   an early return has one program for each way through it. *)

\* lines 124-130: AppState
Locks == {"proxy_status", "auth_status", "config", "pending_oauth", "proxy_process"}

Lock(cell) == <<"lock", cell>>
Unlock(cell) == <<"unlock", cell>>
Read(cell) == <<"read", cell>>
Mutate(cell) == <<"mutate", cell>>
Clone(cell) == <<"clone", cell>>
Write(file) == <<"write", file>>
Emit(event) == <<"emit", event>>
Http == <<"http", "sidecar">>
Spawn == <<"spawn", "sidecar">>
Sleep == <<"sleep", "500ms">>
Kill == <<"kill", "sidecar">>

GetUsageStatsProgram_held ==
    <<Lock("proxy_status"), Read("proxy_status"), Lock("config"), Read("config"),
      Unlock("config"), Http, Unlock("proxy_status")>>

\* lines 576-591: get_usage_stats with the proxy running: the config guard is
\* a temporary of the block that holds the status guard
GetUsageStatsProgram ==
    <<Lock("proxy_status"), Read("proxy_status"), Lock("config"), Read("config"),
      Unlock("proxy_status"), Unlock("config"), Http>>

CompleteOAuthProgram_reversed ==
    <<Lock("pending_oauth"), Lock("auth_status"), Mutate("auth_status"),
      Write("auth.json"), Mutate("pending_oauth"), Clone("auth_status"),
      Emit("auth-status-changed"), Clone("auth_status"),
      Unlock("pending_oauth"), Unlock("auth_status")>>

\* lines 894-918: complete_oauth for a known provider whose save succeeds
CompleteOAuthProgram ==
    <<Lock("auth_status"), Mutate("auth_status"), Write("auth.json"),
      Lock("pending_oauth"), Mutate("pending_oauth"), Clone("auth_status"),
      Emit("auth-status-changed"), Clone("auth_status"),
      Unlock("pending_oauth"), Unlock("auth_status")>>

Programs ==
    [ \* lines 415-418, 567-570, 997-1000
      get_proxy_status |-> <<Lock("proxy_status"), Clone("proxy_status"),
                             Unlock("proxy_status")>>,
      get_auth_status |-> <<Lock("auth_status"), Clone("auth_status"),
                            Unlock("auth_status")>>,
      get_config |-> <<Lock("config"), Clone("config"), Unlock("config")>>,
      \* lines 425-433: start_proxy finds the proxy running
      start_proxy_running |->
          <<Lock("config"), Clone("config"), Unlock("config"),
            Lock("proxy_status"), Read("proxy_status"), Clone("proxy_status"),
            Unlock("proxy_status")>>,
      \* lines 425-530: start_proxy spawns the sidecar
      start_proxy |->
          <<Lock("config"), Clone("config"), Unlock("config"),
            Lock("proxy_status"), Read("proxy_status"), Unlock("proxy_status"),
            Write("proxy-config.yaml"), Spawn,
            Lock("proxy_process"), Mutate("proxy_process"), Unlock("proxy_process"),
            Sleep,
            Lock("proxy_status"), Mutate("proxy_status"), Clone("proxy_status"),
            Unlock("proxy_status"), Emit("proxy-status-changed")>>,
      \* lines 484-494: the drain task takes a Stdout line
      drain_stdout |-> <<Emit("request-log")>>,
      \* lines 499-509: the drain task takes Terminated
      drain_terminated |->
          <<Lock("proxy_status"), Mutate("proxy_status"), Clone("proxy_status"),
            Emit("proxy-status-changed"), Unlock("proxy_status")>>,
      \* lines 539-544: stop_proxy finds the proxy not running
      stop_proxy_stopped |->
          <<Lock("proxy_status"), Read("proxy_status"), Clone("proxy_status"),
            Unlock("proxy_status")>>,
      \* lines 539-564: stop_proxy kills the sidecar
      stop_proxy |->
          <<Lock("proxy_status"), Read("proxy_status"), Unlock("proxy_status"),
            Lock("proxy_process"), Mutate("proxy_process"), Kill,
            Unlock("proxy_process"),
            Lock("proxy_status"), Mutate("proxy_status"), Clone("proxy_status"),
            Unlock("proxy_status"), Emit("proxy-status-changed")>>,
      \* lines 576-580: get_usage_stats finds the proxy not running
      get_usage_stats_offline |->
          <<Lock("proxy_status"), Read("proxy_status"), Unlock("proxy_status")>>,
      get_usage_stats |-> GetUsageStatsProgram,
      \* lines 722-785: open_oauth
      open_oauth |->
          <<Lock("config"), Read("config"), Unlock("config"), Http,
            Lock("pending_oauth"), Mutate("pending_oauth"), Unlock("pending_oauth")>>,
      \* lines 790-804: poll_oauth_status
      poll_oauth_status |-> <<Lock("config"), Read("config"), Unlock("config"), Http>>,
      \* lines 866-877: refresh_auth_status
      refresh_auth_status |->
          <<Lock("auth_status"), Mutate("auth_status"), Unlock("auth_status"),
            Write("auth.json"), Emit("auth-status-changed")>>,
      complete_oauth |-> CompleteOAuthProgram,
      \* lines 895-904: complete_oauth for an unknown provider
      complete_oauth_unknown |-> <<Lock("auth_status"), Unlock("auth_status")>>,
      \* lines 927-946: disconnect_provider
      disconnect_provider |->
          <<Lock("auth_status"), Mutate("auth_status"), Write("auth.json"),
            Emit("auth-status-changed"), Clone("auth_status"), Unlock("auth_status")>>,
      \* lines 957-994: import_vertex_credential
      import_vertex_credential |->
          <<Write("vertex.json"), Lock("auth_status"), Mutate("auth_status"),
            Write("auth.json"), Emit("auth-status-changed"), Clone("auth_status"),
            Unlock("auth_status")>>,
      \* lines 1003-1007: save_config
      save_config |->
          <<Lock("config"), Mutate("config"), Write("config.json"), Unlock("config")>>,
      \* lines 1040-1059: check_provider_health finds the proxy not running
      check_provider_health_offline |->
          <<Lock("config"), Clone("config"), Unlock("config"),
            Lock("auth_status"), Clone("auth_status"), Unlock("auth_status"),
            Lock("proxy_status"), Read("proxy_status"), Unlock("proxy_status")>>,
      \* lines 1040-1073: check_provider_health
      check_provider_health |->
          <<Lock("config"), Clone("config"), Unlock("config"),
            Lock("auth_status"), Clone("auth_status"), Unlock("auth_status"),
            Lock("proxy_status"), Read("proxy_status"), Unlock("proxy_status"),
            Http>>,
      \* lines 1143-1165: test_agent_connection
      test_agent_connection |->
          <<Lock("config"), Clone("config"), Unlock("config"),
            Lock("proxy_status"), Read("proxy_status"), Unlock("proxy_status"),
            Http>>,
      \* lines 1196-1217: handle_deep_link
      handle_deep_link |->
          <<Lock("pending_oauth"), Clone("pending_oauth"), Unlock("pending_oauth"),
            Emit("oauth-callback")>>,
      \* lines 1245-1251: the tray's toggle item
      tray_toggle |->
          <<Lock("proxy_status"), Read("proxy_status"), Unlock("proxy_status"),
            Emit("tray-toggle-proxy")>> ]

\* The commands and tasks that may run at once.
MaxThreads == 2
Threads == 1..MaxThreads

NoProgram == [cmd |-> "", pc |-> 0]

\* What thread t is about to do.
Instruction(t) == Programs[threads[t].cmd][threads[t].pc]

\* A command is invoked, or the drain task takes an event, on a free thread.
Begin(t, cmd) ==
    /\ threads[t] = NoProgram
    /\ threads' = [threads EXCEPT ![t] = [cmd |-> cmd, pc |-> 1]]
    /\ UNCHANGED <<owner, during>>
    /\ UNCHANGED <<supVars, fsVars, oauthVars, histVars, netVars, logVars, linkVars>>

\* Thread t does the next thing of its program; Mutex::lock waits until the
\* cell is free, and dropping the guard frees it.  during[cell] collects what
\* the holder of the cell's lock does while it holds it, other locks it takes
\* included.
Step(t) ==
    /\ threads[t] # NoProgram
    /\ Instruction(t)[1] = "lock" => owner[Instruction(t)[2]] = 0
    /\ owner' = [cell \in Locks |->
                    IF Instruction(t) = Lock(cell) THEN t
                    ELSE IF Instruction(t) = Unlock(cell) THEN 0
                    ELSE owner[cell]]
    /\ during' = [cell \in Locks |->
                     IF Instruction(t) \in {Lock(cell), Unlock(cell)} THEN {}
                     ELSE IF owner[cell] = t /\ Instruction(t)[1] # "unlock"
                          THEN during[cell] \cup {Instruction(t)}
                     ELSE during[cell]]
    /\ threads' = [threads EXCEPT ![t] =
                      IF threads[t].pc = Len(Programs[threads[t].cmd]) THEN NoProgram
                      ELSE [threads[t] EXCEPT !.pc = @ + 1]]
    /\ UNCHANGED <<supVars, fsVars, oauthVars, histVars, netVars, logVars, linkVars>>

LockInit ==
    /\ threads = [t \in Threads |-> NoProgram]
    /\ owner = [cell \in Locks |-> 0]
    /\ during = [cell \in Locks |-> {}]

----------------------------------------------------------------------------

\* AppState built in run(): default status, loaded config, no process
SupInit ==
    /\ proxy_status = ProxyStatus_default
    /\ config = [port |-> ConfiguredPort]
    /\ proxy_process = 0
    /\ children = <<>>
    /\ calls = [c \in Slots |-> Idle]
    /\ proxy_config_file = 0
    /\ last_emit = NoStatus
    /\ returned = NoRet
    /\ epoch = NewEpoch

Init == SupInit /\ FsFresh /\ OAuthInit /\ HistInit /\ NetInit /\ LogInit /\ LockInit /\ LinkInit

Next ==
    \/ StartCheck
    \/ \E c \in Slots, outcome \in SpawnOutcomes : StartSpawn(c, outcome)
    \/ \E c \in Slots : StartSetStatus(c)
    \/ \E c \in Slots : StartEmit(c)
    \/ StopCheck
    \/ \E c \in Slots, ok \in BOOLEAN : StopKill(c, ok)
    \/ \E c \in Slots : StopSetStatus(c)
    \/ \E c \in Slots : StopEmit(c)
    \/ \E p \in Pids : ChildExit(p)
    \/ \E p \in Pids : DrainTerminated(p)

Spec == Init /\ [][Next]_vars

\* The config store alone, over any config.json an earlier run left.
SaveInit == SupInit /\ FsInit /\ OAuthInit /\ HistInit /\ NetInit /\ LogInit /\ LockInit /\ LinkInit

SaveNext ==
    \/ \E cfg \in AppConfigs, dir_ok \in BOOLEAN,
          ws \in [1..MaxAttempts -> WriteOutcomes], rename_ok \in BOOLEAN :
          SaveConfigToFile(cfg, dir_ok, ws, rename_ok)
    \/ \E read_ok \in BOOLEAN, uuid \in Uuids, dir_ok \in BOOLEAN,
          ws \in [1..MaxAttempts -> WriteOutcomes], rename_ok \in BOOLEAN :
          LoadConfig(read_ok, uuid, dir_ok, ws, rename_ok)

SpecSave == SaveInit /\ [][SaveNext]_vars

\* The OAuth commands alone.
OAuthNext ==
    \/ \E provider \in ProviderArgs, resp \in AuthUrlResponses :
          OpenStore(provider, resp)
    \/ \E open_ok \in BOOLEAN : OpenReturn(open_ok)
    \/ \E oauth_state \in {"st1"}, resp \in StatusResponses :
          PollOAuthStatus(oauth_state, resp)
    \/ \E provider \in FlagArgs, outcome \in WriteOutcomes :
          CompleteSave(provider, outcome)
    \/ CompleteFinish
    \/ \E provider \in FlagArgs, outcome \in WriteOutcomes :
          DisconnectProvider(provider, outcome)
    \/ \E dir \in SUBSET {ClaudeFile} : RefreshScan(dir)
    \/ \E outcome \in WriteOutcomes : RefreshSave(outcome)

SpecOAuth == Init /\ [][OAuthNext]_vars

\* The request history commands alone.
HistNext ==
    \/ \E read_ok \in BOOLEAN, outcome \in WriteOutcomes :
          AddRequestToHistory(read_ok, outcome)
    \/ \E outcome \in WriteOutcomes : ClearRequestHistory(outcome)
    \/ \E read_ok \in BOOLEAN : GetRequestHistory(read_ok)

SpecHistory == Init /\ [][HistNext]_vars

\* The three loads, over the files an earlier run may have left: none, a
\* truncated one, a complete one.
OneEventHistory ==
    [requests |-> <<EventAt(1)>>, total_tokens_in |-> 100, total_tokens_out |-> 1,
     total_cost_usd |-> 260000]

ClaudeAuth == [AuthStatus_default EXCEPT !["claude"] = TRUE]

LoadInit ==
    /\ SupInit
    /\ config_json \in {Absent} \cup {File(b, Serialize(c)) : b \in BOOLEAN, c \in AppConfigs}
    /\ config_tmp = Absent
    /\ saved = NoSave
    /\ loaded = Absent
    /\ auth_json \in {Absent, File(FALSE, ClaudeAuth), File(TRUE, ClaudeAuth)}
    /\ auth_status = AuthStatus_default
    /\ pending_oauth = NoPending
    /\ refreshing = Absent
    /\ opening = Absent
    /\ completing = Absent
    /\ answered = NoAnswer
    /\ history_json \in {Absent, File(FALSE, SerializeHistory(OneEventHistory)),
                          File(TRUE, SerializeHistory(OneEventHistory))}
    /\ hist_ret = NoHistRet
    /\ offered = 0
    /\ accepted = <<>>
    /\ kept = <<>>
    /\ upsets = 0
    /\ NetInit
    /\ LogInit
    /\ LockInit
    /\ LinkInit

LoadNext ==
    \/ \E read_ok \in BOOLEAN, uuid \in Uuids, dir_ok \in BOOLEAN,
          ws \in [1..MaxAttempts -> WriteOutcomes], rename_ok \in BOOLEAN :
          LoadConfig(read_ok, uuid, dir_ok, ws, rename_ok)
    \/ \E read_ok \in BOOLEAN : GetRequestHistory(read_ok)
    \/ \E read_ok \in BOOLEAN : RunLoadAuth(read_ok)

SpecLoad == LoadInit /\ [][LoadNext]_vars

\* The commands that write auth_status, over every credential directory.
AuthNext ==
    \/ \E provider \in FlagArgs, outcome \in WriteOutcomes :
          CompleteSave(provider, outcome)
    \/ CompleteFinish
    \/ \E provider \in FlagArgs, outcome \in WriteOutcomes :
          DisconnectProvider(provider, outcome)
    \/ \E dir \in SUBSET DirFiles : RefreshScan(dir)
    \/ \E outcome \in WriteOutcomes : RefreshSave(outcome)

SpecAuth == Init /\ [][AuthNext]_vars

\* The state one successful start_proxy leaves.
SupStarted ==
    /\ proxy_status = StartedStatus(ConfiguredPort)
    /\ config = [port |-> ConfiguredPort]
    /\ proxy_process = 1
    /\ children = <<NewChild>>
    /\ calls = [c \in Slots |-> Idle]
    /\ proxy_config_file = ConfiguredPort
    /\ last_emit = StartedStatus(ConfiguredPort)
    /\ returned = Returned("start", "started", Ok(StartedStatus(ConfiguredPort)))
    /\ epoch = [spawns |-> 1, ret |-> StartedStatus(ConfiguredPort), same |-> TRUE]

\* The commands that call the sidecar, with the proxy not started or started
\* once, and auth.json as an earlier run may have left it.
HttpInit ==
    /\ SupInit \/ SupStarted
    /\ FsFresh
    /\ auth_json \in {Absent, File(TRUE, ClaudeAuth)}
    /\ auth_status = LoadAuthStatus(auth_json)
    /\ pending_oauth = NoPending
    /\ refreshing = Absent
    /\ opening = Absent
    /\ completing = Absent
    /\ answered = NoAnswer
    /\ HistInit
    /\ NetInit
    /\ LogInit
    /\ LockInit
    /\ LinkInit

HttpNext ==
    \/ GetUsageStats
    \/ \E answer \in UsageAnswers : UsageAnswered(answer)
    \/ \E provider \in ProviderArgs : OpenOAuthSend(provider)
    \/ \E resp \in AuthUrlResponses : OpenAnswered(resp)
    \/ \E open_ok \in BOOLEAN : OpenReturn(open_ok)
    \/ \E oauth_state \in StateTokens : PollOAuthStatusSend(oauth_state)
    \/ \E resp \in StatusResponses : PollAnswered(resp)
    \/ CheckProviderHealth
    \/ \E resp \in FailedResponses \cup {OkJson} : HealthAnswered(resp)
    \/ \E agent_id \in {"claude-code"} : TestAgentConnection(agent_id)
    \/ \E resp \in FailedResponses \cup {OkJson} : ConnectionAnswered(resp)
    \/ HttpTimeout

SpecHttp == HttpInit /\ [][HttpNext]_vars

\* The same, with reqwest's timer sure to fire; the sidecar is free never to
\* answer.
SpecHttpLive == SpecHttp /\ WF_vars(HttpTimeout)

\* The drain task of a started sidecar, with a line on its channel after it
\* counted some events, and the provider detection with a name to classify.
ParseInit ==
    /\ SupStarted
    /\ FsFresh
    /\ OAuthInit
    /\ HistInit
    /\ NetInit
    /\ request_counter \in {[p \in 1..MaxSpawns |-> IF p = 1 THEN n ELSE 0] :
                              n \in 0..(MaxRequests - 1)}
    /\ \/ /\ stdout \in {[NoLines EXCEPT ![1] = <<parts>>] : parts \in LogLines}
          /\ scanned = NoScan
       \/ /\ stdout = NoLines
          /\ scanned \in {Waiting("detect_provider_from_model", parts) :
                             parts \in ModelNames}
    /\ taken = NoLines
    /\ request_log = <<>>
    /\ LockInit
    /\ LinkInit

ParseNext ==
    \/ \E p \in Pids : DrainStdout(p)
    \/ DetectProvider

SpecParse == ParseInit /\ [][ParseNext]_vars

\* A started sidecar prints, exits when it does, and its drain task takes what
\* the channel holds.
DrainNext ==
    \/ \E p \in Pids, parts \in StreamLines : SidecarPrint(p, parts)
    \/ \E p \in Pids : DrainStdout(p)
    \/ \E p \in Pids : ChildExit(p)
    \/ \E p \in Pids : DrainTerminated(p)

DrainInit ==
    SupStarted /\ FsFresh /\ OAuthInit /\ HistInit /\ NetInit /\ LogInit /\ LockInit /\ LinkInit

SpecDrain == DrainInit /\ [][DrainNext]_vars

\* The writes of one save tried: every attempt works, or none can open the file.
SaveWrites == {[a \in 1..MaxAttempts |-> w] : w \in {"ok", "denied"}}

\* start_proxy, stop_proxy and save_config one after the other, and the
\* commands that call the sidecar at any moment between their steps.
PortNext ==
    \/ NoCommandInProgress /\ StartCheck
    \/ \E c \in Slots : StartSpawn(c, "spawned")
    \/ \E c \in Slots : StartSetStatus(c)
    \/ \E c \in Slots : StartEmit(c)
    \/ NoCommandInProgress /\ StopCheck
    \/ \E c \in Slots : StopKill(c, TRUE)
    \/ \E c \in Slots : StopSetStatus(c)
    \/ \E c \in Slots : StopEmit(c)
    \/ \E p \in Pids : DrainTerminated(p)
    \/ \E cfg \in EditedConfigs, ws \in SaveWrites :
          NoCommandInProgress /\ SaveConfig(cfg, TRUE, ws, TRUE)
    \/ GetUsageStats
    \/ \E provider \in {"claude"} : OpenOAuthSend(provider)
    \/ \E oauth_state \in {"st1"} : PollOAuthStatusSend(oauth_state)
    \/ CheckProviderHealth
    \/ \E agent_id \in {"claude-code"} : TestAgentConnection(agent_id)
    \/ \E resp \in {TimedOut} : OpenAnswered(resp)
    \/ \E resp \in {TimedOut} : PollAnswered(resp)
    \/ HttpTimeout

SpecPort == Init /\ [][PortNext]_vars

\* OAuth flows begun and completed, and the deep links the system hands over.
LinkNext ==
    \/ \E provider \in {"claude", "gemini"}, resp \in AuthUrlResponses :
          OpenStore(provider, resp)
    \/ \E open_ok \in BOOLEAN : OpenReturn(open_ok)
    \/ \E provider \in {"claude", "gemini"} : CompleteSave(provider, "ok")
    \/ CompleteFinish
    \/ \E link \in DeepLinks : HandleDeepLink(link)

SpecLink == Init /\ [][LinkNext]_vars

\* The lock regions alone.
LocksNext ==
    \/ \E t \in Threads, cmd \in DOMAIN Programs : Begin(t, cmd)
    \/ \E t \in Threads : Step(t)

SpecLocks == Init /\ [][LocksNext]_vars

----------------------------------------------------------------------------
(* The supervisor's claims *)

\* The status start_proxy is to report for the configured port.
RunningAt(port) ==
    [running |-> TRUE, port |-> port, endpoint |-> <<"http://localhost:", port, "/v1">>]

\* C1: among the start_proxy calls made with no stop_proxy activity and no
\* sidecar exit in between, whether one begins after or while another is in
\* progress, at most one spawns a sidecar and all return the same status.
C1_OneSpawnSameStatus == epoch.spawns <= 1 /\ epoch.same

\* Slot c holds a start_proxy that takes a step.
StartStep(c) == calls[c].op = "start" /\ calls'[c] # calls[c]

\* The drain task of sidecar p handles Terminated in this step.
DrainStep(p) == children[p].rx = "terminated" /\ children'[p].rx = "closed"

C3_StopDrainRace ==
    [][ /\ \A p \in Pids : DrainStep(p) => ~proxy_status'.running
        /\ \A c \in Slots :
             ( /\ calls[c].op = "stop" /\ calls'[c].pc = "idle"
               /\ calls[c].overlap /\ calls[c].undisturbed )
               => ~proxy_status'.running
      ]_vars

\* C3's case: a stop_proxy about to return, overlapped by a drain task.
C3_Witness ==
    \E c \in Slots : /\ calls[c].op = "stop" /\ calls[c].pc = "emit"
                     /\ calls[c].overlap /\ calls[c].undisturbed
                     /\ ~proxy_status.running

\* C8: a start_proxy issued while the status is running spawns nothing, writes
\* no proxy-config.yaml, leaves status and process slot alone, emits nothing,
\* occupies no command slot and returns Ok(the current status).
C8_StartWhileRunning ==
    [][ (StartCheck /\ proxy_status.running)
          => /\ UNCHANGED <<proxy_status, proxy_process, children,
                            proxy_config_file, last_emit>>
             /\ \A c \in Slots : calls'[c].pc = calls[c].pc
             /\ returned' = [op |-> "start", how |-> "already_running",
                             ret |-> [tag |-> "Ok", status |-> proxy_status]]
      ]_vars

\* C8's case: a start_proxy has just returned the status of a running proxy.
C8_Witness ==
    /\ returned.how = "already_running"
    /\ returned.ret.status = proxy_status /\ proxy_status.running

\* C9: a start_proxy that found the proxy not running and spawned the sidecar
\* leaves the status alone until its settle delay is over, then writes
\* running with the configured port and endpoint, emits exactly that status
\* once, as its last step, and returns it.
C9_StartFromNotRunning ==
    [][ \A c \in Slots :
          /\ (calls[c].pc = "idle" /\ calls'[c].op = "start")
               => /\ ~proxy_status.running
                  /\ UNCHANGED <<proxy_status, last_emit>>
          /\ (StartStep(c) /\ calls[c].pc = "spawn")
               => UNCHANGED <<proxy_status, last_emit>>
          /\ (StartStep(c) /\ calls[c].pc = "sleep")
               => /\ proxy_status' = RunningAt(config.port)
                  /\ UNCHANGED last_emit
                  /\ returned' = NoRet
          /\ (StartStep(c) /\ calls[c].pc = "emit")
               => /\ UNCHANGED proxy_status
                  /\ last_emit' = RunningAt(config.port)
                  /\ returned' = [op |-> "start", how |-> "started",
                                  ret |-> [tag |-> "Ok", status |-> last_emit']]
      ]_vars

\* C9's case: a start_proxy has just returned the status it wrote and emitted.
C9_Witness ==
    /\ returned.how = "started"
    /\ returned.ret.status = RunningAt(ConfiguredPort)
    /\ last_emit = returned.ret.status

\* C10: when the spawn fails, start_proxy returns an error and leaves the
\* status, the process slot, the set of sidecars (so no drain task) and the
\* emitted events as they were.
C10_SpawnFailure ==
    [][ returned'.how = "spawn_failed"
          => /\ returned'.ret.tag = "Err"
             /\ UNCHANGED <<proxy_status, proxy_process, children, last_emit>>
      ]_vars

\* C10's case: a spawn has just failed while the slot held an earlier child.
C10_Witness ==
    /\ returned.how = "spawn_failed"
    /\ proxy_process # 0 /\ ~proxy_status.running

------------------------------------------------------------\* Slot c holds a stop_proxy that takes a step.
StopStep(c) == calls[c].op = "stop" /\ calls'[c].pc # calls[c].pc

\* C11: a stop_proxy that found the proxy running and whose kill succeeds
\* empties the process slot, then writes a status that is not running, then
\* emits exactly that status and returns it.
C11_StopWhileRunning ==
    [][ \A c \in Slots :
          /\ (calls[c].pc = "idle" /\ calls'[c].op = "stop")
               => /\ proxy_status.running
                  /\ UNCHANGED <<proxy_status, proxy_process, last_emit>>
          /\ (StopStep(c) /\ calls[c].pc = "kill" /\ calls'[c].pc = "set_status")
               => /\ proxy_process' = 0
                  /\ \A p \in Pids : p = proxy_process => ~children'[p].alive
                  /\ UNCHANGED <<proxy_status, last_emit>>
          /\ (StopStep(c) /\ calls[c].pc = "set_status")
               => /\ ~proxy_status'.running
                  /\ proxy_status'.port = proxy_status.port
                  /\ UNCHANGED <<proxy_process, last_emit>>
          /\ (StopStep(c) /\ calls[c].pc = "emit")
               => /\ UNCHANGED <<proxy_status, proxy_process>>
                  /\ ~last_emit'.running
                  /\ returned' = [op |-> "stop", how |-> "stopped",
                                  ret |-> [tag |-> "Ok", status |-> last_emit']]
      ]_vars

\* C11's case: a stop_proxy has just returned the status it wrote and emitted,
\* with the slot empty and the sidecar it killed dead.
C11_Witness ==
    /\ returned.how = "stopped"
    /\ returned.ret.status = proxy_status /\ ~proxy_status.running
    /\ last_emit = proxy_status
    /\ proxy_process = 0
    /\ children # <<>> /\ \A p \in Pids : ~children[p].alive

\* C12: a stop_proxy whose kill fails returns an error, and the process slot is
\* empty after that step.
C12_KillFailure ==
    [][ \A c \in Slots :
          (StopStep(c) /\ calls[c].pc = "kill" /\ calls'[c].pc = "idle")
             => /\ returned'.op = "stop" /\ returned'.ret.tag = "Err"
                /\ proxy_process' = 0
      ]_vars

\* C12's case: a kill has just failed, the sidecar is alive, the slot is empty.
C12_Witness ==
    /\ returned.how = "kill_failed" /\ returned.ret.tag = "Err"
    /\ proxy_process = 0
    /\ \E p \in Pids : children[p].alive

\* C13: a stop_proxy issued while the status is not running kills nothing,
\* leaves status and process slot alone, emits nothing, occupies no command
\* slot and returns Ok(the current status).
C13_StopWhileNotRunning ==
    [][ (StopCheck /\ ~proxy_status.running)
          => /\ UNCHANGED <<proxy_status, proxy_process, children, last_emit>>
             /\ \A c \in Slots : calls'[c].pc = calls[c].pc
             /\ returned' = [op |-> "stop", how |-> "not_running",
                             ret |-> [tag |-> "Ok", status |-> proxy_status]]
      ]_vars

\* C13's case: a stop_proxy has just returned the status of a stopped proxy
\* while the slot holds a handle.
C13_Witness ==
    /\ returned.op = "stop" /\ returned.how = "not_running"
    /\ returned.ret.status = proxy_status /\ ~proxy_status.running
    /\ proxy_process # 0

\* C14: once the drain task has handled the termination of a sidecar, or a
\* stop_proxy has gone through its kill, the process slot does not hold the
\* handle of a terminated sidecar whose termination has been handled.
C14_SlotEmptyAfterTermination ==
    \A p \in Pids : children[p].rx = "closed" => proxy_process # p

----------------
(* The config store's claims *)

\* C4: whatever the config directory held before, a save_config_to_file whose
\* every write attempt to the temp file failed leaves config.json with exactly
\* the content it had before the call.
C4_FailedWritesKeepTarget ==
    [][saved'.all_failed => config_json' = config_json]_vars

\* C18: when all 3 attempts to write the temporary file fail, the save returns
\* an error and renames nothing onto config.json.
C18_FailedWritesReturnError ==
    [][saved'.all_failed => (saved'.ret # "Ok" /\ config_json' = config_json)]_vars

\* C19: a load_config that follows a save_config_to_file(c) which returned Ok
\* returns c, equal in every field.
C19_SaveLoadRoundTrip ==
    [][(saved.ret = "Ok" /\ loaded' # Absent) => <<loaded'[1].config>> = saved.cfg]_vars

\* config.json holds a config in the deprecated single-provider shape.
DeprecatedShape(file) ==
    /\ file # Absent
    /\ file[1].complete
    /\ file[1].json.ampOpenaiProvider # <<>>
    /\ file[1].json.ampOpenaiProviders = <<>>

\* load_config runs and reads config.json.
ConfigRead == loaded' # Absent /\ loaded'[1].read_ok

----------------------------------------------------------------------------
(* The OAuth claims *)

\* poll_oauth_status just returned Ok(b).
PollReturned(b) ==
    /\ answered.op = "poll_oauth_status"
    /\ answered.ret.tag = "Ok"
    /\ answered.ret.val = b

OpenReturnedOk == answered.op = "open_oauth" /\ answered.ret.tag = "Ok"

CompleteReturnedOk == answered.op = "complete_oauth" /\ answered.ret.tag = "Ok"

ExpectedAuth(dir) ==
    [p \in AuthProviders |->
        \/ p = "claude" /\ (ClaudeFile \in dir \/ AnthropicUpperFile \in dir)
        \/ p = "openai" /\ CodexFile \in dir]

Persisted == LoadRequestHistory(history_json)

\* What one event adds to each total: its token counts, none counting as 0,
\* and its estimated cost
TokensInOf(n) == IF EventAt(n).tokens_in = <<>> THEN 0 ELSE EventAt(n).tokens_in[1]
TokensOutOf(n) == IF EventAt(n).tokens_out = <<>> THEN 0 ELSE EventAt(n).tokens_out[1]
CostOf(n) == EstimateRequestCost(EventAt(n).model, TokensInOf(n), TokensOutOf(n))

\* The three amounts of every event that can be offered
AmountsOf ==
    [n \in 1..MaxEvents |->
        [tokens_in |-> TokensInOf(n), tokens_out |-> TokensOutOf(n), cost |-> CostOf(n)]]

RECURSIVE SumTokensIn(_, _)
SumTokensIn(ids, k) ==
    IF k = 0 THEN 0 ELSE AmountsOf[ids[k]].tokens_in + SumTokensIn(ids, k - 1)

RECURSIVE SumTokensOut(_, _)
SumTokensOut(ids, k) ==
    IF k = 0 THEN 0 ELSE AmountsOf[ids[k]].tokens_out + SumTokensOut(ids, k - 1)

RECURSIVE SumCost(_, _)
SumCost(ids, k) ==
    IF k = 0 THEN 0 ELSE AmountsOf[ids[k]].cost + SumCost(ids, k - 1)

TotalsAre(ids) ==
    /\ Persisted.total_tokens_in = SumTokensIn(ids, Len(ids))
    /\ Persisted.total_tokens_out = SumTokensOut(ids, Len(ids))
    /\ Persisted.total_cost_usd = SumCost(ids, Len(ids))

\* C16 as stated: the persisted totals are the sums over every event ever
\* added (since the history was last cleared).
C16_TotalsOfAllEvents == TotalsAre(accepted)

\* C16: the persisted totals are the sums over every event added since
\* history.json was last cleared, last left truncated by a failed write or
\* last unreadable to an add, however many of those events were trimmed from
\* the stored sequence.
C16_TotalsSinceReset == TotalsAre(kept)

\* More events were added than the window holds, and the totals count tokens
\* of events no longer stored.
C16_Witness ==
    /\ Len(kept) > HistoryCap
    /\ Len(Persisted.requests) = HistoryCap
    /\ Persisted.requests[1].id > kept[1]
    /\ Persisted.total_tokens_in > 0
    /\ Persisted.total_tokens_in = SumTokensIn(kept, Len(kept))
    /\ TokensInOf(kept[1]) > 0

Min(a, b) == IF a < b THEN a ELSE b

\* The stored sequence is the last min(n, 100) of the n events ids, in order.
WindowIs(ids) ==
    LET n == Len(ids)
        len == Min(n, 100)
    IN  /\ Len(Persisted.requests) = len
        /\ \A i \in 1..len : Persisted.requests[i] = EventAt(ids[n - len + i])

\* C17 as stated: after n events were added, the persisted sequence is the
\* min(n, 100) most recently added events, in insertion order.
C17_WindowOfAllEvents == WindowIs(accepted)

\* C17: the persisted sequence is the min(n, 100) most recent of the n events
\* added since history.json was last cleared, last left truncated by a failed
\* write or last unreadable to an add, in insertion order;
\* add_request_to_history answers Ok with that sequence, untrimmed, of at most
\* 101 events.
C17_WindowSinceReset ==
    /\ WindowIs(kept)
    /\ (hist_ret.op = "add_request_to_history" /\ hist_ret.ret.tag = "Ok")
         => LET got == hist_ret.ret.val.requests
                off == Len(got) - Len(Persisted.requests)
            IN  /\ off \in {0, 1}
                /\ off = 1 <=> Len(kept) > 100
                /\ \A i \in 1..Len(Persisted.requests) :
                      got[i + off] = Persisted.requests[i]

\* 102 events were added: the two oldest are gone, the 100 newest are stored.
C17_Witness ==
    /\ Len(kept) = 102
    /\ Len(Persisted.requests) = 100
    /\ Persisted.requests[1].id = 3
    /\ Persisted.requests[100].id = 102

----------------------------------------------------------------------------
(* The loads' claim *)

\* The file is missing or does not parse.
NoContent(file) == file = Absent \/ ~file[1].complete

\* A load_config step, as it goes when config.json yields no config: the
\* identifier and the outcomes of a save play no part then.
LoadConfigStep(read_ok) ==
    LoadConfig(read_ok, "uuid1", TRUE, [a \in 1..MaxAttempts |-> "ok"], TRUE)

\* C21: load_config, load_request_history and load_auth_status return the
\* default value (the default AppConfig; no requests and zero totals; every
\* flag false), and no error, when the file is missing, cannot be read or does
\* not parse; load_config then saves nothing.
C21_LoadsFallBackToDefault ==
    [][ /\ \A read_ok \in BOOLEAN :
             (LoadConfigStep(read_ok) /\ (~read_ok \/ NoContent(config_json)))
             => /\ loaded'[1].config =
                     [port |-> 8317, amp_openai_provider |-> <<>>,
                      amp_openai_providers |-> <<>>]
                /\ config_json' = config_json
        /\ \A read_ok \in BOOLEAN :
             (GetRequestHistory(read_ok) /\ (~read_ok \/ NoContent(history_json)))
               => hist_ret'.ret =
                    Res("Ok", [requests |-> <<>>, total_tokens_in |-> 0,
                               total_tokens_out |-> 0, total_cost_usd |-> 0])
        /\ \A read_ok \in BOOLEAN :
             (RunLoadAuth(read_ok) /\ (~read_ok \/ NoContent(auth_json)))
               => /\ \A p \in AuthProviders : ~auth_status'[p]
                  /\ answered'.ret.tag = "Ok"
      ]_vars

\* The three loads ran: one could not read a complete config.json, one found
\* a truncated history.json, one found no auth.json; each answered the default.
C21_Witness ==
    /\ loaded # Absent /\ ~loaded[1].read_ok
    /\ config_json # Absent /\ config_json[1].complete
    /\ loaded[1].config = AppConfig_default
    /\ hist_ret.op = "get_request_history"
    /\ history_json # Absent /\ ~history_json[1].complete
    /\ hist_ret.ret.val = RequestHistory_default
    /\ answered.op = "load_auth_status"
    /\ auth_json = Absent
    /\ auth_status = AuthStatus_default

----------------------------------------------------------------------------
(* The usage fetch's claims *)

\* The usage data of a body is where get_usage_stats looks for it.
InPlace(shape) == shape.envelope \in {"top", "usage"}

\* The snapshot a body of the given shape stands for: what it carries, and 0
\* or nothing for what it lacks.
SnapshotOf(shape) ==
    LET totals == InPlace(shape) /\ shape.totals = "number"
        today == InPlace(shape) /\ shape.days = "today"
        full == InPlace(shape) /\ shape.apis = "full"
        one == InPlace(shape) /\ shape.apis \in {"no_details", "no_tokens"}
    IN [total_requests |-> IF totals THEN 9 ELSE 0,
        success_count |-> IF totals THEN 7 ELSE 0,
        failure_count |-> IF totals THEN 2 ELSE 0,
        total_tokens |-> IF totals THEN 50 ELSE 0,
        input_tokens |-> IF full THEN 9 ELSE 0,
        output_tokens |-> IF full THEN 7 ELSE 0,
        requests_today |-> IF today THEN 4 ELSE 0,
        tokens_today |-> IF today THEN 20 ELSE 0,
        models |-> IF full THEN <<ModelUsage("m2", 7, 30), ModelUsage("m1", 6, 15)>>
                   ELSE IF one THEN <<ModelUsage("m1", 2, 10)>>
                   ELSE <<>>]

\* get_usage_stats found the proxy running and got an answer with a body.
UsageAnswer ==
    /\ answered.op = "get_usage_stats"
    /\ proxy_status.running
    /\ answered.resp.kind = "http"

C23_NotRunningNoRequest ==
    [][(GetUsageStats /\ ~proxy_status.running)
          => /\ answered'.op = "get_usage_stats"
             /\ answered'.ret.tag = "Ok"
             /\ answered'.ret.val =
                    [total_requests |-> 0, success_count |-> 0, failure_count |-> 0,
                     total_tokens |-> 0, input_tokens |-> 0, output_tokens |-> 0,
                     requests_today |-> 0, tokens_today |-> 0, models |-> <<>>]
             /\ wire' = Absent]_vars

\* get_usage_stats returned without a call while the proxy was not running.
C23_Witness ==
    /\ ~proxy_status.running
    /\ answered.op = "get_usage_stats"
    /\ answered.resp = NoResponse
    /\ answered.ret.tag = "Ok"
    /\ wire = Absent

----------------------------------------------------------------------------
(* The HTTP calls' claims *)

\* The request goes to an endpoint of the management API.
ToManagementApi(request) == SubSeq(request.path, 1, 15) = "/v0/management/"

\* C24: every request in flight to a management-API endpoint (auth-url,
\* get-auth-status, usage) carries the X-Management-Key header with the
\* management secret.
C24_ManagementKeyOnEveryCall ==
    (wire # Absent /\ ToManagementApi(wire[1].request))
        => <<"X-Management-Key", "proxypal-mgmt-key">> \in wire[1].request.headers

\* C25: every HTTP call is bounded by a timeout, so a call in flight is over
\* at some later time even if the sidecar never answers.
C25_EveryCallEnds == (wire # Absent) ~> (wire = Absent)

----------------------------------------------------------------------------
(* The log parser's claims *)

\* The drain task parsed the line.
Parsed == scanned.op = "parse_request_log" /\ scanned.done

\* What was written into the line: a method token (BUDGET has GET in it), a
\* recognized API path, a noise marker in some letter case.
MethodWritten == scanned.input.method \in {"POST", "GET", "PUT", "DELETE", "BUDGET"}

PathWritten ==
    scanned.input.path \in {"/v1/chat/completions", "/v1/messages", "/v1/completions"}

NoiseWritten ==
    scanned.input.word \in {"listening", "LISTENING", "Starting", "loaded",
                            "reConfigured", "Error:", "warn:"}

\* C26: a line without a case-sensitive POST, GET, PUT or DELETE, or without
\* one of the three recognized API paths (/v1/models is none), gives no event;
\* a line with a method, a recognized path and no noise marker gives one.
C26_MethodAndPathRequired ==
    Parsed =>
        /\ (~MethodWritten \/ ~PathWritten) => scanned.output = None
        /\ (MethodWritten /\ PathWritten /\ ~NoiseWritten) => Len(scanned.output) = 1

\* A line with POST whose only path is /v1/models was rejected.
C26_Witness ==
    /\ Parsed
    /\ scanned.input.method = "POST"
    /\ scanned.input.path = "/v1/models"
    /\ scanned.output = None

\* C27: a line with a noise marker, in whatever letter case, gives no event,
\* also when it has a method and a recognized API path.
C27_NoiseRejected == (Parsed /\ NoiseWritten) => scanned.output = None

\* "POST /v1/messages LISTENING 200" was rejected.
C27_Witness ==
    /\ Parsed
    /\ scanned.input = LogParts("", "POST", "/v1/messages", "LISTENING", "200")
    /\ scanned.output = None

\* The status written into the rest of a line: the first of its tokens, cut at
\* blanks, round brackets, colons and >, that is an integer in 100..599, and
\* 200 when there is none.
StatusWritten(rest) ==
    CASE rest = "" -> 200
      [] rest = "200" -> 200
      [] rest = "404 123ms" -> 404
      [] rest = "-> 500 (123ms)" -> 500
      [] rest = "->503" -> 503
      [] rest = "(429)" -> 429
      [] rest = "status:301" -> 301
      [] rest = "99 600 201 1.5s" -> 201
      [] rest = "[302]" -> 200
      [] rest = "+204" -> 204
      [] rest = "0404" -> 404
      [] rest = "70000 418" -> 418
      [] rest = "404," -> 200
      [] rest = "2s 100" -> 100

\* C28: the status of a parsed event is the first token of the line, split at
\* whitespace, round brackets, colons and >, that parses as an integer in
\* [100, 599], and 200 when no token qualifies.
C28_FirstStatusToken ==
    (Parsed /\ Len(scanned.output) = 1)
        => scanned.output[1].status = StatusWritten(scanned.input.rest)

\* An event took the status 201 from "99 600 201 1.5s".
C28_Witness ==
    /\ Parsed
    /\ scanned.input.rest = "99 600 201 1.5s"
    /\ Len(scanned.output) = 1
    /\ scanned.output[1].status = 201

\* C29: detect_provider_from_model answers antigravity for every model name
\* that starts with gemini-claude in any letter case, although the name also
\* has the claude and gemini keywords.
C29_GeminiClaudeIsAntigravity ==
    (/\ scanned.op = "detect_provider_from_model"
     /\ scanned.done
     /\ scanned.input.family \in {"gemini-claude", "Gemini-Claude", "GEMINI-CLAUDE"})
        => scanned.output = "antigravity"

\* gemini-claude-3 was classified as antigravity.
C29_Witness ==
    /\ scanned.op = "detect_provider_from_model"
    /\ scanned.done
    /\ scanned.input = ModelParts("gemini-claude", "-3")
    /\ scanned.output = "antigravity"

----------------------------------------------------------------------------
(* The locks' claims *)

\* What takes time outside the process: an HTTP call to the sidecar, the spawn
\* of the sidecar, the settle delay after the spawn.
Suspending == {Http, Spawn, Sleep}

OwnAccess(cell) == {Read(cell), Mutate(cell), Clone(cell)}

\* Thread t is in the middle of an HTTP call, a spawn or the settle delay.
Suspended(t) == threads[t] # NoProgram /\ Instruction(t) \in Suspending

NoLockWhileSuspended ==
    \A t \in Threads : Suspended(t) => \A cell \in Locks : owner[cell] # t

HeldAcross(cell) ==
    CASE cell = "auth_status" ->
             {Write("auth.json"), Emit("auth-status-changed"),
              Lock("pending_oauth"), Mutate("pending_oauth")}
      [] cell = "pending_oauth" -> {Clone("auth_status"), Emit("auth-status-changed")}
      [] cell = "proxy_status" ->
             {Lock("config"), Read("config"), Emit("proxy-status-changed")}
      [] cell = "config" -> {Write("config.json")}
      [] cell = "proxy_process" -> {Kill}

----------------------------------------------------------------------------
(* The drain task's claims *)

\* The lines of StreamLines that are request lines: a method, a recognized API
\* path, no noise marker.
AcceptedLines ==
    {LogParts("", "POST", "/v1/chat/completions", "", "200"),
     LogParts("[INFO]", "GET", "/v1/messages", "", "-> 500 (123ms)")}

\* The request-log events of sidecar p, in the order of their emission.
LogOf(p) == SelectSeq(request_log, LAMBDA e : e.pid = p)

\* The events due for the lines i.. of what the drain task of p has taken, n
\* events being due for the lines before.
RECURSIVE EventsDue(_, _, _)
EventsDue(p, i, n) ==
    IF i > Len(taken[p]) THEN <<>>
    ELSE IF taken[p][i] \in AcceptedLines
           THEN <<[pid |-> p, of |-> i, id |-> <<"req_", n + 1>>]>>
                    \o EventsDue(p, i + 1, n + 1)
           ELSE EventsDue(p, i + 1, n)

\* C31: the counter of a drain task is the number of accepted lines among the
\* lines it has taken, and the task has emitted one request-log event for each
\* of them, in the order of the output, with the ids req_1, req_2, ...
C31_OneEventPerAcceptedLine ==
    \A p \in 1..MaxSpawns :
        /\ LogOf(p) = EventsDue(p, 1, 0)
        /\ request_counter[p] = Len(LogOf(p))

\* A request line, a health check and another request line were taken: req_1
\* was emitted for the first line and req_2 for the third.
C31_Witness ==
    /\ Len(taken[1]) = 3
    /\ taken[1][1] \in AcceptedLines
    /\ taken[1][2] \notin AcceptedLines
    /\ taken[1][3] \in AcceptedLines
    /\ request_log = <<[pid |-> 1, of |-> 1, id |-> <<"req_", 1>>],
                       [pid |-> 1, of |-> 3, id |-> <<"req_", 2>>]>>

----------------------------------------------------------------------------
(* The supervisor's claims about quiescent states *)

\* No drain task has an event waiting on its channel.
NoEventPending == \A p \in Pids : children[p].rx # "terminated" /\ stdout[p] = <<>>

Quiescent == NoCommandInProgress /\ NoEventPending

\* C32: in every quiescent state with the status running, the sidecar spawned
\* last is alive.
C32_RunningMeansAlive ==
    (Quiescent /\ proxy_status.running) =>
        (children # <<>> /\ children[Len(children)].alive)

\* C33: when the drain task of a sidecar that stop_proxy killed handles its
\* Terminated after a later start_proxy has completed, with the new sidecar
\* alive and no command in progress, the status stays running.
C33_StaleTerminationIgnored ==
    [][ \A p \in Pids :
          (/\ DrainStep(p)
           /\ children[p].stopped
           /\ p < Len(children)
           /\ children[Len(children)].alive
           /\ NoCommandInProgress
           /\ proxy_status.running)
            => proxy_status'.running
      ]_vars

\* C34: whenever no command is in progress and the status is not running, no
\* sidecar the supervisor spawned is alive.
C34_NotRunningMeansNoneAlive ==
    (NoCommandInProgress /\ ~proxy_status.running) =>
        \A p \in Pids : ~children[p].alive

\* C35: in every quiescent state the running flag of the proxy-status-changed
\* event emitted last, if one was emitted, is the running flag of the status.
C35_LastEmitIsStatus ==
    (Quiescent /\ last_emit # NoStatus) => last_emit.running = proxy_status.running

----------------------------------------------------------------------------
(* The port of the HTTP calls *)

\* A command puts its request on the wire in this step.
CallIssued == wire = Absent /\ wire' # Absent

\* C36: every call issued while the status is running goes to the port in the
\* status, the port the running sidecar was started with.
C36_CallsTargetRunningPort ==
    [][ (CallIssued /\ proxy_status.running)
          => wire'[1].request.port = proxy_status.port ]_vars

----------------------------------------------------------------------------
(* The OAuth commands' claims about their errors *)

\* The command op returns an error in this step.
ReturnsError(op) ==
    answered' # answered /\ answered'.op = op /\ answered'.ret.tag = "Err"

\* C37: when open_oauth returns an error, the pending slot holds the flow it
\* held when the call began (answered.prior is that flow's provider, "" for
\* an empty slot).
C37_BeginErrorKeepsPending ==
    [][ ReturnsError("open_oauth")
          => PendingProvider(pending_oauth') = answered'.prior ]_vars

\* C38: when complete_oauth returns an error, auth_status and the pending slot
\* are what they were before the call and no auth-status-changed was emitted.
C38_CompleteErrorKeepsState ==
    [][ ReturnsError("complete_oauth")
          => /\ auth_status' = auth_status
             /\ pending_oauth' = pending_oauth
             /\ answered'.emitted = NoEvent ]_vars

----------------------------------------------------------------------------
(* The deep link's claims *)

\* The link carries the state token of the flow last superseded or cleared.
Stale(link) == link.state # None /\ retired = <<link.state[1]>>

\* handle_deep_link emitted oauth-callback in this step.
CallbackEmitted == answered'.emitted # NoEvent

\* The event is for the pending flow.
ForPendingFlow(link) ==
    /\ pending_oauth # NoPending
    /\ link.state = Some(pending_oauth[1].state)
    /\ answered'.emitted[1].provider = pending_oauth[1].provider

\* C39 (as stated): oauth-callback is emitted for a deep link only when a flow
\* is pending and the link's state is the pending state token, and carries the
\* pending flow's provider; a link with the state token of a flow that was
\* superseded or cleared gives no event.
C39_CallbackOnlyForPendingFlow ==
    [][ \A link \in DeepLinks :
          HandleDeepLink(link) =>
            /\ CallbackEmitted => ForPendingFlow(link)
            /\ Stale(link) => ~CallbackEmitted ]_vars

\* C39 (amended): oauth-callback is emitted for a deep link exactly when the
\* link is proxypal:/oauth/callback with a code and a state, a flow is pending
\* and the link's state is the pending state token; it carries the pending
\* flow's provider and the link's code.  A link with the state token of a flow
\* that was superseded or cleared gives no event unless the flow now pending
\* has the same state token.
C39_CallbackForMatchingState ==
    [][ \A link \in DeepLinks :
          HandleDeepLink(link) =>
            /\ CallbackEmitted <=>
                 /\ link.scheme = "proxypal" /\ link.path = "/oauth/callback"
                 /\ link.code # None
                 /\ pending_oauth # NoPending
                 /\ link.state = Some(pending_oauth[1].state)
            /\ CallbackEmitted =>
                 /\ ForPendingFlow(link)
                 /\ answered'.emitted[1].code = link.code[1]
            /\ (Stale(link) /\ (pending_oauth = NoPending \/
                                  link.state # Some(pending_oauth[1].state)))
                 => ~CallbackEmitted ]_vars

\* A callback with the state of the flow that a later open_oauth superseded
\* arrived while the later flow, with another state, was pending: no event.
C39_Witness ==
    /\ answered.op = "handle_deep_link"
    /\ IsCallback(answered.arg)
    /\ retired = <<answered.arg.state[1]>>
    /\ pending_oauth # NoPending
    /\ pending_oauth[1].state # answered.arg.state[1]
    /\ answered.emitted = NoEvent

----------------------------------------------------------------------------
(* The locks' claim about deadlock *)

\* Thread t waits at Mutex::lock for a cell that is taken.
Blocked(t) ==
    /\ threads[t] # NoProgram
    /\ Instruction(t)[1] = "lock"
    /\ owner[Instruction(t)[2]] # 0

\* The thread that holds what the blocked thread t waits for.
Holder(t) == owner[Instruction(t)[2]]

\* From t on, n threads in a row wait each for the next.
RECURSIVE WaitChain(_, _)
WaitChain(t, n) == n = 0 \/ (Blocked(t) /\ WaitChain(Holder(t), n - 1))

\* Some threads wait for each other in a circle, or one for itself: a chain
\* longer than the number of threads comes back to one of them.
Deadlocked == \E t \in Threads : WaitChain(t, MaxThreads + 1)

\* The pairs of cells of which the second is locked while the first is held.
LockOrder == {<<"auth_status", "pending_oauth">>, <<"proxy_status", "config">>}

\* C40: no threads ever wait for each other's locks, and a lock is taken
\* under another only as auth_status then pending_oauth and as proxy_status
\* then config, never the other way round.
C40_NoDeadlock ==
    /\ ~Deadlocked
    /\ \A outer \in Locks, inner \in Locks :
          Lock(inner) \in during[outer] => <<outer, inner>> \in LockOrder

\* complete_oauth holds the auth lock and the pending lock taken inside it,
\* and another command waits for the pending lock.
C40_Witness ==
    /\ owner["auth_status"] # 0
    /\ owner["pending_oauth"] = owner["auth_status"]
    /\ \E t \in Threads : Blocked(t) /\ Instruction(t) = Lock("pending_oauth")

====
